---- MODULE Spec2Model ----
(***************************************************************************)
(* kernel-sync: the tiered semaphores (RwSemaphore, RwdSemaphore), their   *)
(* suspend/resume adapter (AcquireFuture) and the guarded-payload locks    *)
(* built on them (FutureMutex, FutureRwLock, FutureRwdLock).               *)
(*                                                                         *)
(* One step of the model is one atomic memory operation of the code (a     *)
(* fetch_add, a compare_exchange, ...) or one critical section of the      *)
(* waiter queue's SpinMutex.  Tasks interleave freely between steps.       *)
(***************************************************************************)
EXTENDS Integers, Naturals, Sequences, FiniteSets, TLC

VARIABLES
    lockType,   \* which guarded-payload lock the tasks share
    permit,     \* Semaphore.permit (AtomicUsize)
    locked,     \* SpinMutex.locked of Semaphore.waiters
    waiters,    \* VecDeque<Arc<Waiter>>: sequence of [task, req, live]; live is
                \* FALSE once the AcquireFuture that owns the node was dropped
    pc,         \* per task: position in the code
    req,        \* per task: AcquireType of the acquisition in progress
    held,       \* per task: tier of the guard it owns
    queued,     \* per task: Waiter.queued of its AcquireFuture's node
    waker,      \* per task: Waiter.waker is Some
    woken,      \* per task: its Waker was invoked and not yet consumed by a poll
    value,      \* per task: `value` returned by the failed fetch_add
    data,       \* the payload cell (UnsafeCell<T>)
    tmp,        \* per task: the payload value read inside a critical section
    iters,      \* per task: completed increments of the payload
    tries,      \* per task: try_acquire_* calls made by the running poll_acquire
    nest,       \* per task: push_off calls minus pop_off calls it has made
    strategy,   \* the NestStrategy in use: "NoIrqNest" or "MockNest"
    depth,      \* per execution context: the interrupt-nesting depth
    saved,      \* per execution context: the recorded "interrupts were enabled"
    enabled,    \* per execution context: the interrupt-enable flag
    pre,        \* per execution context: `enabled` when the running nest began
    restores,   \* per execution context: restores made for the latest nest
    peak,       \* per execution context: the greatest depth of the latest nest
    fault,      \* per execution context: a pop_off without a push_off was made
    mcsType,    \* the dual-channel lock in use: "MCSLock" or "FutureMCSLock"
    chLocked,   \* per channel: MCSLock.locked[ch] / lock[ch].permit = WRITER
    chWaiters,  \* per channel: lock[ch].waiters, a sequence of tasks
    mpc,        \* per task: position in a dual-channel lock call
    mch,        \* per task: the channel of its call in progress
    mheld,      \* per task: the channels it owns a guard of
    mqueued,    \* per task: Waiter.queued of its acquisition on a channel
    mwoken,     \* per task: its Waker was invoked by a channel's wake_next
    wakerOf,    \* per task: the Waker stored in its Waiter (0: None)
    cx,         \* per task: the Waker of the Context of its latest poll
    leaked,     \* per task: it has passed its guard to leak()
    llocked,    \* LsLock.llock: the FutureMutex's permit word is WRITER
    lwaiters,   \* LsLock.llock: the waiter queue, a sequence of tasks
    sreaders,   \* LsLock.slock: the number of read guards
    swriter,    \* LsLock.slock: a write guard exists
    lpc,        \* per task: position in an LsLock call
    lop,        \* per task: the LsLock method it is in
    lguard,     \* per task: it owns the guard of llock
    lsheld,     \* per task: the LsLock guard it was returned
    lqueued,    \* per task: Waiter.queued of its acquisition of llock
    lwoken,     \* per task: its Waker was invoked by llock's wake_next
    next_ticket,    \* TicketMutex.next_ticket
    next_serving,   \* TicketMutex.next_serving
    tpc,        \* per task: position in a TicketMutex call
    ticket,     \* per task: the ticket of its call / of its guard
    tguard      \* per task: it owns a TicketMutexGuard

\* the semaphores and the locks built on them
lockVars == <<lockType, permit, locked, waiters, pc, req, held, queued, waker,
              woken, value, data, tmp, iters, tries, nest>>

\* the interrupt-nesting counter
nestVars == <<strategy, depth, saved, enabled, pre, restores, peak, fault>>

\* what a step of the semaphores and their locks leaves alone
\* the dual-channel lock
mcsVars == <<mcsType, chLocked, chWaiters, mpc, mch, mheld, mqueued, mwoken>>

\* what a step of the semaphores and their locks leaves alone
\* the identity of the wake handles
wakerVars == <<wakerOf, cx>>

\* the long+short composite lock
lsVars == <<llocked, lwaiters, sreaders, swriter, lpc, lop, lguard, lsheld, lqueued, lwoken>>

\* the ticket lock
tkVars == <<next_ticket, next_serving, tpc, ticket, tguard>>

\* what a step of the semaphores and their locks leaves alone
aux == <<nestVars, mcsVars, wakerVars, leaked, lsVars, tkVars>>

\* what a step of the composite lock or of the ticket lock leaves alone
base == <<lockVars, nestVars, mcsVars, wakerVars, leaked>>

vars == <<lockVars, nestVars, mcsVars, wakerVars, leaked, lsVars, tkVars>>

\* ------------------------------------------------------------------ bounds
NTasks == 3
LoopCnt == 2
MaxTries == 2
MaxAbandoned == 1
NContexts == 2
MaxDepth == 3
NWakers == 2

Tasks == 1..NTasks
Contexts == 1..NContexts
Channels == {"Normal", "Interrupt"}
Wakers == 1..NWakers

\* --------------------------------------------------------- program constants
READER == 4
WRITER == 2
DISK == 1
RW_READER == 4
RW_WRITER == 1

\* ------------------------------------------------------------ bit helpers
\* b is a single bit (a power of two)
BitSet(v, b) == (v \div b) % 2 = 1
\* v & !b
AndNot(v, b) == IF BitSet(v, b) THEN v - b ELSE v
\* v | b
Or(v, b) == IF BitSet(v, b) THEN v ELSE v + b

TierBit(r) == IF r = "Write" THEN WRITER ELSE DISK

\* ------------------------------------------------------------- wake policy
IsRead(w) == w.req = "Read"
NotRead(w) == w.req # "Read"
TasksOf(s) == {s[i].task : i \in DOMAIN s}

\* Waiter::wake on every element of the set ws of woken tasks
Waiter_wake(ws) == [t \in Tasks |-> IF t \in ws THEN TRUE ELSE woken[t]]

\* mutant: a writer / disk head takes the waiter behind it along
wake_next_queue_pops_two(ws) ==
    IF ws = << >> THEN ws
    ELSE IF IsRead(Head(ws)) THEN SelectSeq(Tail(ws), NotRead)
         ELSE IF Len(ws) >= 2 THEN Tail(Tail(ws)) ELSE Tail(ws)

\* wake_next: the queue it leaves
wake_next_queue(ws) ==
    IF ws = << >> THEN ws
    ELSE IF IsRead(Head(ws)) THEN SelectSeq(Tail(ws), NotRead)
         ELSE Tail(ws)

\* mutant: the readers behind the head are removed without a wake() call
wake_next_woken_head_only(ws) ==
    IF ws = << >> THEN {} ELSE {Head(ws).task}

\* wake_next: the tasks whose waker it invokes
wake_next_woken(ws) ==
    IF ws = << >> THEN {}
    ELSE IF IsRead(Head(ws))
         THEN {Head(ws).task} \cup TasksOf(SelectSeq(Tail(ws), IsRead))
         ELSE {Head(ws).task}

\* wake_reader: the queue it leaves, the tasks it wakes
wake_reader_queue(ws) == SelectSeq(ws, NotRead)
wake_reader_woken(ws) == TasksOf(SelectSeq(ws, IsRead))

\* -------------------------------------------------------------------- Init
\* the interrupt-nesting counters before any push_off
InitNestIdle ==
    /\ depth = [c \in Contexts |-> 0]
    /\ saved = [c \in Contexts |-> FALSE]
    /\ pre = [c \in Contexts |-> FALSE]
    /\ restores = [c \in Contexts |-> 0]
    /\ peak = [c \in Contexts |-> 0]
    /\ fault = [c \in Contexts |-> FALSE]

\* a semaphore after new(), every task outside the lock
InitLock ==
    /\ permit = 0
    /\ locked = FALSE
    /\ waiters = << >>
    /\ pc = [t \in Tasks |-> "idle"]
    /\ req = [t \in Tasks |-> "None"]
    /\ held = [t \in Tasks |-> "None"]
    /\ queued = [t \in Tasks |-> FALSE]
    /\ waker = [t \in Tasks |-> FALSE]
    /\ woken = [t \in Tasks |-> FALSE]
    /\ value = [t \in Tasks |-> 0]
    /\ data = 0
    /\ tmp = [t \in Tasks |-> 0]
    /\ iters = [t \in Tasks |-> 0]
    /\ tries = [t \in Tasks |-> 0]
    /\ nest = [t \in Tasks |-> 0]

\* MCSLock::new / FutureMCSLock::new, every task outside the lock
InitChannels ==
    /\ chLocked = [ch \in Channels |-> FALSE]
    /\ chWaiters = [ch \in Channels |-> << >>]
    /\ mpc = [t \in Tasks |-> "idle"]
    /\ mch = [t \in Tasks |-> "None"]
    /\ mheld = [t \in Tasks |-> {}]
    /\ mqueued = [t \in Tasks |-> FALSE]
    /\ mwoken = [t \in Tasks |-> FALSE]

\* Waiter::new: waker: None
InitWakers ==
    /\ wakerOf = [t \in Tasks |-> 0]
    /\ cx = [t \in Tasks |-> 0]
    /\ leaked = [t \in Tasks |-> FALSE]

\* LsLock::new, every task outside the lock
InitLs ==
    /\ llocked = FALSE
    /\ lwaiters = << >>
    /\ sreaders = 0
    /\ swriter = FALSE
    /\ lpc = [t \in Tasks |-> "idle"]
    /\ lop = [t \in Tasks |-> "None"]
    /\ lguard = [t \in Tasks |-> FALSE]
    /\ lsheld = [t \in Tasks |-> "None"]
    /\ lqueued = [t \in Tasks |-> FALSE]
    /\ lwoken = [t \in Tasks |-> FALSE]

\* TicketMutex::new, every task outside the lock
InitTicket ==
    /\ next_ticket = 0
    /\ next_serving = 0
    /\ tpc = [t \in Tasks |-> "idle"]
    /\ ticket = [t \in Tasks |-> 0]
    /\ tguard = [t \in Tasks |-> FALSE]

InitTasks ==
    /\ InitLock
    /\ InitWakers
    /\ InitLs
    /\ InitTicket
    /\ strategy = "MockNest"
    /\ enabled = [c \in Contexts |-> TRUE]
    /\ InitNestIdle
    /\ mcsType = "MCSLock"
    /\ InitChannels

Init == InitTasks /\ lockType \in {"FutureRwdLock", "FutureRwLock"}

\* ===================================================== RwdSemaphore engine

\* try_acquire_read, first half: fetch_add(READER) and the test of `value`
Rwd_try_acquire_read(t, okpc, undopc) ==
    /\ nest' = [nest EXCEPT ![t] = @ + 1]
    /\ permit' = permit + READER
    /\ IF BitSet(permit, DISK) \/ BitSet(permit, WRITER)
       THEN /\ pc' = [pc EXCEPT ![t] = undopc]
            /\ value' = [value EXCEPT ![t] = permit]
            /\ UNCHANGED <<held, req>>
       ELSE /\ pc' = [pc EXCEPT ![t] = okpc]
            /\ held' = [held EXCEPT ![t] = "Read"]
            /\ req' = [req EXCEPT ![t] = "None"]
            /\ UNCHANGED value

\* mutant: the failed attempt leaves its reader step behind
Rwd_try_acquire_read_undo_forgotten(t, nextpc) ==
    /\ permit' = permit
    /\ pc' = [pc EXCEPT ![t] = nextpc]
    /\ value' = [value EXCEPT ![t] = 0]
    /\ nest' = [nest EXCEPT ![t] = @ - 1]

\* try_acquire_read, second half: fetch_sub(READER), Err(value)
Rwd_try_acquire_read_undo(t, nextpc) ==
    /\ permit' = permit - READER
    /\ pc' = [pc EXCEPT ![t] = nextpc]
    /\ value' = [value EXCEPT ![t] = 0]
    /\ nest' = [nest EXCEPT ![t] = @ - 1]

\* mutant: the compare_exchange expects only "no writer, no disk holder"
Rwd_try_acquire_excl_ignores_readers(t, r, okpc, errpc) ==
    IF ~BitSet(permit, WRITER) /\ ~BitSet(permit, DISK)
    THEN /\ permit' = permit + TierBit(r)
         /\ held' = [held EXCEPT ![t] = r]
         /\ req' = [req EXCEPT ![t] = "None"]
         /\ pc' = [pc EXCEPT ![t] = okpc]
         /\ nest' = [nest EXCEPT ![t] = @ + 1]
    ELSE /\ pc' = [pc EXCEPT ![t] = errpc]
         /\ UNCHANGED <<permit, held, req, nest>>

\* try_acquire_write / try_acquire_disk: compare_exchange(0, bit)
Rwd_try_acquire_excl(t, r, okpc, errpc) ==
    IF permit = 0
    THEN /\ permit' = TierBit(r)
         /\ held' = [held EXCEPT ![t] = r]
         /\ req' = [req EXCEPT ![t] = "None"]
         /\ pc' = [pc EXCEPT ![t] = okpc]
         /\ nest' = [nest EXCEPT ![t] = @ + 1]
    ELSE /\ pc' = [pc EXCEPT ![t] = errpc]
         /\ UNCHANGED <<permit, held, req, nest>>

\* mutant: the first poll goes on to poll_acquire without storing the waker
FutureRwdLock_acquire_no_waker(t) ==
    /\ lockType = "FutureRwdLock"
    /\ pc[t] = "idle"
    /\ \E r \in {"Read", "Write", "Disk"} : req' = [req EXCEPT ![t] = r]
    /\ queued' = [queued EXCEPT ![t] = FALSE]
    /\ woken' = [woken EXCEPT ![t] = FALSE]
    /\ pc' = [pc EXCEPT ![t] = "pa_lock"]
    /\ UNCHANGED <<aux, lockType, nest, permit, locked, waiters, held, value, data, tmp,
                   iters, tries, waker>>

\* FutureRwdLock::read / write / disk: acquire_*() creates the future with a
\* fresh Waiter; the first AcquireFuture::poll stores the waker and enters
\* poll_acquire, which waits for the queue lock
FutureRwdLock_acquire(t) ==
    /\ lockType = "FutureRwdLock"
    /\ pc[t] = "idle"
    /\ \E r \in {"Read", "Write", "Disk"} : req' = [req EXCEPT ![t] = r]
    /\ queued' = [queued EXCEPT ![t] = FALSE]
    /\ waker' = [waker EXCEPT ![t] = TRUE]
    /\ woken' = [woken EXCEPT ![t] = FALSE]
    /\ pc' = [pc EXCEPT ![t] = "pa_lock"]
    /\ UNCHANGED <<aux, lockType, nest, permit, locked, waiters, held, value, data, tmp, iters, tries>>

\* AcquireFuture::poll of a pending future whose waker was invoked
AcquireFuture_poll(t) ==
    /\ pc[t] = "pending"
    /\ woken[t]
    /\ waker[t]
    /\ woken' = [woken EXCEPT ![t] = FALSE]
    /\ pc' = [pc EXCEPT ![t] = "pa_lock"]
    /\ UNCHANGED <<aux, lockType, nest, permit, locked, waiters, req, held, queued, waker,
                   value, data, tmp, iters, tries>>

\* the nodes in the queue whose AcquireFuture is gone
Abandoned == SelectSeq(waiters, LAMBDA w : ~w.live)

\* the queue once the AcquireFuture of task t is gone: its node, if queued,
\* stays where it is
FutureGone(t) ==
    [i \in DOMAIN waiters |->
        IF waiters[i].task = t THEN [waiters[i] EXCEPT !.live = FALSE] ELSE waiters[i]]

\* An AcquireFuture is dropped while pending (it has no Drop impl): the
\* future's Arc<Waiter> goes away, the clone in the queue stays
AcquireFuture_drop(t) ==
    /\ pc[t] = "pending"
    /\ Len(Abandoned) < MaxAbandoned
    /\ waiters' = FutureGone(t)
    /\ pc' = [pc EXCEPT ![t] = "idle"]
    /\ req' = [req EXCEPT ![t] = "None"]
    /\ queued' = [queued EXCEPT ![t] = FALSE]
    /\ waker' = [waker EXCEPT ![t] = FALSE]
    /\ UNCHANGED <<aux, lockType, nest, permit, locked, held, woken, value, data, tmp,
                   iters, tries>>

\* poll_acquire: self.waiters.lock()
poll_acquire_lock(t) ==
    /\ pc[t] = "pa_lock"
    /\ ~locked
    /\ locked' = TRUE
    /\ pc' = [pc EXCEPT ![t] = "pa_try"]
    /\ nest' = [nest EXCEPT ![t] = @ + 1]
    /\ UNCHANGED <<aux, lockType, permit, waiters, req, held, queued, waker, woken,
                   value, data, tmp, iters, tries>>

\* mutant: the loop breaks on every error of a write / disk attempt
Rwd_poll_acquire_try_once(t) ==
    /\ lockType = "FutureRwdLock"
    /\ pc[t] = "pa_try"
    /\ IF req[t] = "Read"
       THEN Rwd_try_acquire_read(t, "pa_ok", "pa_undo")
       ELSE /\ Rwd_try_acquire_excl(t, req[t], "pa_ok", "pa_err")
            /\ UNCHANGED value
    /\ tries' = [tries EXCEPT ![t] = IF @ < MaxTries THEN @ + 1 ELSE @]
    /\ UNCHANGED <<aux, lockType, locked, waiters, queued, waker, woken, data, tmp, iters>>

\* RwdSemaphore::poll_acquire: one pass of the loop; it breaks on Ok and on
\* Err(DISK) and repeats on every other error, the queue lock held
Rwd_poll_acquire_try(t) ==
    /\ lockType = "FutureRwdLock"
    /\ pc[t] = "pa_try"
    /\ IF req[t] = "Read"
       THEN Rwd_try_acquire_read(t, "pa_ok", "pa_undo")
       ELSE /\ Rwd_try_acquire_excl(t, req[t], "pa_ok",
                                    IF permit = DISK THEN "pa_err" ELSE "pa_try")
            /\ UNCHANGED value
    /\ tries' = [tries EXCEPT ![t] = IF @ < MaxTries THEN @ + 1 ELSE @]
    /\ UNCHANGED <<aux, lockType, locked, waiters, queued, waker, woken, data, tmp, iters>>

Rwd_poll_acquire_undo(t) ==
    /\ lockType = "FutureRwdLock"
    /\ pc[t] = "pa_undo"
    /\ Rwd_try_acquire_read_undo(t, IF value[t] = DISK THEN "pa_err" ELSE "pa_try")
    /\ UNCHANGED <<aux, lockType, locked, waiters, req, held, queued, waker, woken,
                   data, tmp, iters, tries>>

\* mutant: push_front in place of push_back
poll_acquire_err_push_front(t) ==
    /\ pc[t] = "pa_err"
    /\ IF ~queued[t]
       THEN /\ queued' = [queued EXCEPT ![t] = TRUE]
            /\ waiters' = <<[task |-> t, req |-> req[t], live |-> TRUE]>> \o waiters
       ELSE UNCHANGED <<queued, waiters>>
    /\ locked' = FALSE
    /\ pc' = [pc EXCEPT ![t] = "pending"]
    /\ tries' = [tries EXCEPT ![t] = 0]
    /\ nest' = [nest EXCEPT ![t] = @ - 1]
    /\ UNCHANGED <<aux, lockType, permit, req, held, waker, woken, value, data, tmp, iters>>

\* mutant: the node is pushed on every failed poll, `queued` is not consulted
poll_acquire_err_requeues(t) ==
    /\ pc[t] = "pa_err"
    /\ queued' = [queued EXCEPT ![t] = TRUE]
    /\ waiters' = Append(waiters, [task |-> t, req |-> req[t], live |-> TRUE])
    /\ locked' = FALSE
    /\ pc' = [pc EXCEPT ![t] = "pending"]
    /\ tries' = [tries EXCEPT ![t] = 0]
    /\ nest' = [nest EXCEPT ![t] = @ - 1]
    /\ UNCHANGED <<aux, lockType, permit, req, held, waker, woken, value, data, tmp, iters>>

\* poll_acquire after a failure: enqueue the node unless `queued` is already
\* set, drop the queue lock, return Err (Poll::Pending)
poll_acquire_err(t) ==
    /\ pc[t] = "pa_err"
    /\ IF ~queued[t]
       THEN /\ queued' = [queued EXCEPT ![t] = TRUE]
            /\ waiters' = Append(waiters, [task |-> t, req |-> req[t], live |-> TRUE])
       ELSE UNCHANGED <<queued, waiters>>
    /\ locked' = FALSE
    /\ pc' = [pc EXCEPT ![t] = "pending"]
    /\ tries' = [tries EXCEPT ![t] = 0]
    /\ nest' = [nest EXCEPT ![t] = @ - 1]
    /\ UNCHANGED <<aux, lockType, permit, req, held, waker, woken, value, data, tmp, iters>>

\* poll_acquire after a success: drop the queue lock, return Ok (Poll::Ready);
\* the completed future and its Waiter are dropped by the caller
poll_acquire_ok(t) ==
    /\ pc[t] = "pa_ok"
    /\ locked' = FALSE
    /\ pc' = [pc EXCEPT ![t] = "hold"]
    /\ queued' = [queued EXCEPT ![t] = FALSE]
    /\ waker' = [waker EXCEPT ![t] = FALSE]
    /\ tries' = [tries EXCEPT ![t] = 0]
    /\ nest' = [nest EXCEPT ![t] = @ - 1]
    /\ waiters' = FutureGone(t)
    /\ UNCHANGED <<aux, lockType, permit, req, held, woken,
                   value, data, tmp, iters>>

\* FutureRwdLock::try_read/try_write/try_disk (spin = FALSE) and
\* spin_read/spin_write/spin_disk (spin = TRUE): one lock-free attempt
FutureRwdLock_try(t) ==
    /\ lockType = "FutureRwdLock"
    /\ \E r \in {"Read", "Write", "Disk"}, spin \in BOOLEAN :
        /\ \/ pc[t] = "idle"
           \/ pc[t] = "spin" /\ req[t] = r /\ spin
        /\ IF r = "Read"
           THEN /\ Rwd_try_acquire_read(t, "hold", IF spin THEN "spin_undo" ELSE "try_undo")
                /\ UNCHANGED <<queued, waker>>
           ELSE /\ IF permit = 0
                   THEN Rwd_try_acquire_excl(t, r, "hold", "idle")
                   ELSE /\ pc' = [pc EXCEPT ![t] = IF spin THEN "spin" ELSE "idle"]
                        /\ req' = [req EXCEPT ![t] = IF spin THEN r ELSE "None"]
                        /\ UNCHANGED <<permit, held, nest>>
                /\ UNCHANGED <<value, queued, waker>>
    /\ UNCHANGED <<aux, lockType, locked, waiters, woken, data, tmp, iters, tries>>

FutureRwdLock_try_undo(t) ==
    /\ lockType = "FutureRwdLock"
    /\ pc[t] \in {"try_undo", "spin_undo"}
    /\ Rwd_try_acquire_read_undo(t, IF pc[t] = "spin_undo" THEN "spin" ELSE "idle")
    /\ req' = [req EXCEPT ![t] = IF pc[t] = "spin_undo" THEN "Read" ELSE "None"]
    /\ UNCHANGED <<aux, lockType, locked, waiters, held, queued, waker, woken,
                   data, tmp, iters, tries>>

\* Drop for a guard: release_read / release_write / release_disk is entered
Guard_drop(t) ==
    /\ IF lockType = "FutureMutex" THEN pc[t] = "cs_done" ELSE pc[t] \in {"hold", "cs_done"}
    /\ pc' = [pc EXCEPT ![t] = "rel_lock"]
    /\ UNCHANGED <<aux, lockType, nest, permit, locked, waiters, req, held, queued, waker,
                   woken, value, data, tmp, iters, tries>>

\* release_*: self.waiters.lock()
release_lock(t) ==
    /\ pc[t] = "rel_lock"
    /\ ~locked
    /\ locked' = TRUE
    /\ pc' = [pc EXCEPT ![t] = "rel_clear"]
    /\ nest' = [nest EXCEPT ![t] = @ + 1]
    /\ UNCHANGED <<aux, lockType, permit, waiters, req, held, queued, waker, woken,
                   value, data, tmp, iters, tries>>

\* mutant: release_read runs the wake policy whatever the old word
Rwd_release_clear_wakes_always(t) ==
    /\ lockType = "FutureRwdLock"
    /\ pc[t] = "rel_clear"
    /\ IF held[t] = "Read"
       THEN permit' = permit - READER
       ELSE permit' = AndNot(permit, TierBit(held[t]))
    /\ pc' = [pc EXCEPT ![t] = "rel_wake"]
    /\ held' = [held EXCEPT ![t] = "None"]
    /\ UNCHANGED <<aux, lockType, nest, locked, waiters, req, queued, waker, woken, value,
                   data, tmp, iters, tries>>

\* RwdSemaphore::release_read/write/disk: the fetch_sub / fetch_and
Rwd_release_clear(t) ==
    /\ lockType = "FutureRwdLock"
    /\ pc[t] = "rel_clear"
    /\ IF held[t] = "Read"
       THEN /\ permit' = permit - READER
            /\ pc' = [pc EXCEPT ![t] = IF permit = READER THEN "rel_wake" ELSE "rel_done"]
       ELSE /\ permit' = AndNot(permit, TierBit(held[t]))
            /\ pc' = [pc EXCEPT ![t] = "rel_wake"]
    /\ held' = [held EXCEPT ![t] = "None"]
    /\ UNCHANGED <<aux, lockType, nest, locked, waiters, req, queued, waker, woken, value,
                   data, tmp, iters, tries>>

\* mutant: wake_next sets the bit of a writer / disk head on its behalf
release_wake_hands_over(t) ==
    /\ pc[t] = "rel_wake"
    /\ waiters' = wake_next_queue(waiters)
    /\ woken' = Waiter_wake(wake_next_woken(waiters))
    /\ locked' = FALSE
    /\ pc' = [pc EXCEPT ![t] = "idle"]
    /\ nest' = [nest EXCEPT ![t] = @ - 2]
    /\ permit' = IF waiters # << >> /\ NotRead(Head(waiters))
                 THEN Or(permit, IF lockType = "FutureRwdLock"
                                 THEN TierBit(Head(waiters).req) ELSE RW_WRITER)
                 ELSE permit
    /\ UNCHANGED <<aux, lockType, req, held, queued, waker, value, data, tmp, iters, tries>>

\* release_*: wake_next, then the queue lock is dropped
release_wake(t) ==
    /\ pc[t] = "rel_wake"
    /\ waiters' = wake_next_queue(waiters)
    /\ woken' = Waiter_wake(wake_next_woken(waiters))
    /\ locked' = FALSE
    /\ pc' = [pc EXCEPT ![t] = "idle"]
    /\ nest' = [nest EXCEPT ![t] = @ - 2]
    /\ UNCHANGED <<aux, lockType, permit, req, held, queued, waker, value, data, tmp, iters, tries>>

\* mutant: release_read without its own pop_off
release_done_pops_once(t) ==
    /\ pc[t] = "rel_done"
    /\ locked' = FALSE
    /\ pc' = [pc EXCEPT ![t] = "idle"]
    /\ nest' = [nest EXCEPT ![t] = @ - 1]
    /\ UNCHANGED <<aux, lockType, permit, waiters, req, held, queued, waker, woken,
                   value, data, tmp, iters, tries>>

\* release_read with other readers left: only the queue lock is dropped
release_done(t) ==
    /\ pc[t] = "rel_done"
    /\ locked' = FALSE
    /\ pc' = [pc EXCEPT ![t] = "idle"]
    /\ nest' = [nest EXCEPT ![t] = @ - 2]
    /\ UNCHANGED <<aux, lockType, permit, waiters, req, held, queued, waker, woken,
                   value, data, tmp, iters, tries>>

\* ====================================================== RwSemaphore engine

\* mutant: the writer bit of `value` is not tested
Rw_try_acquire_read_unchecked(t, okpc, undopc) ==
    /\ nest' = [nest EXCEPT ![t] = @ + 1]
    /\ permit' = permit + RW_READER
    /\ pc' = [pc EXCEPT ![t] = okpc]
    /\ held' = [held EXCEPT ![t] = "Read"]
    /\ req' = [req EXCEPT ![t] = "None"]

\* try_acquire_read, first half: fetch_add(READER) and the test of `value`
Rw_try_acquire_read(t, okpc, undopc) ==
    /\ nest' = [nest EXCEPT ![t] = @ + 1]
    /\ permit' = permit + RW_READER
    /\ IF BitSet(permit, RW_WRITER)
       THEN /\ pc' = [pc EXCEPT ![t] = undopc]
            /\ UNCHANGED <<held, req>>
       ELSE /\ pc' = [pc EXCEPT ![t] = okpc]
            /\ held' = [held EXCEPT ![t] = "Read"]
            /\ req' = [req EXCEPT ![t] = "None"]

\* mutant: Err(()) is returned without the fetch_sub
Rw_try_acquire_read_undo_forgotten(t, nextpc) ==
    /\ permit' = permit
    /\ pc' = [pc EXCEPT ![t] = nextpc]
    /\ nest' = [nest EXCEPT ![t] = @ - 1]

\* try_acquire_read, second half: fetch_sub(READER), Err(())
Rw_try_acquire_read_undo(t, nextpc) ==
    /\ permit' = permit - RW_READER
    /\ pc' = [pc EXCEPT ![t] = nextpc]
    /\ nest' = [nest EXCEPT ![t] = @ - 1]

\* mutant: a fetch_or in place of the compare_exchange, its result ignored
Rw_try_acquire_write_unchecked(t, okpc, errpc) ==
    /\ permit' = Or(permit, RW_WRITER)
    /\ held' = [held EXCEPT ![t] = "Write"]
    /\ req' = [req EXCEPT ![t] = "None"]
    /\ pc' = [pc EXCEPT ![t] = okpc]
    /\ nest' = [nest EXCEPT ![t] = @ + 1]

\* try_acquire_write: compare_exchange(0, WRITER)
Rw_try_acquire_write(t, okpc, errpc) ==
    IF permit = 0
    THEN /\ permit' = RW_WRITER
         /\ held' = [held EXCEPT ![t] = "Write"]
         /\ req' = [req EXCEPT ![t] = "None"]
         /\ pc' = [pc EXCEPT ![t] = okpc]
         /\ nest' = [nest EXCEPT ![t] = @ + 1]
    ELSE /\ pc' = [pc EXCEPT ![t] = errpc]
         /\ UNCHANGED <<permit, held, req, nest>>

\* FutureRwLock::read / write: the future is created and polled for the
\* first time, up to poll_acquire's wait for the queue lock
FutureRwLock_acquire(t) ==
    /\ lockType = "FutureRwLock"
    /\ pc[t] = "idle"
    /\ \E r \in {"Read", "Write"} : req' = [req EXCEPT ![t] = r]
    /\ queued' = [queued EXCEPT ![t] = FALSE]
    /\ waker' = [waker EXCEPT ![t] = TRUE]
    /\ woken' = [woken EXCEPT ![t] = FALSE]
    /\ pc' = [pc EXCEPT ![t] = "pa_lock"]
    /\ UNCHANGED <<aux, lockType, nest, permit, locked, waiters, held, value, data, tmp, iters, tries>>

\* FutureMutex::lock, as handle1 of the test calls it: loop_cnt times
FutureMutex_lock(t) ==
    /\ lockType = "FutureMutex"
    /\ pc[t] = "idle"
    /\ iters[t] < LoopCnt
    /\ req' = [req EXCEPT ![t] = "Write"]
    /\ queued' = [queued EXCEPT ![t] = FALSE]
    /\ waker' = [waker EXCEPT ![t] = TRUE]
    /\ woken' = [woken EXCEPT ![t] = FALSE]
    /\ pc' = [pc EXCEPT ![t] = "pa_lock"]
    /\ UNCHANGED <<aux, lockType, nest, permit, locked, waiters, held, value, data, tmp, iters, tries>>

\* RwSemaphore::poll_acquire: the single attempt made under the queue lock
Rw_poll_acquire_try(t) ==
    /\ lockType \in {"FutureRwLock", "FutureMutex"}
    /\ pc[t] = "pa_try"
    /\ IF req[t] = "Read"
       THEN Rw_try_acquire_read(t, "pa_ok", "pa_undo")
       ELSE Rw_try_acquire_write(t, "pa_ok", "pa_err")
    /\ tries' = [tries EXCEPT ![t] = IF @ < MaxTries THEN @ + 1 ELSE @]
    /\ UNCHANGED <<aux, lockType, locked, waiters, queued, waker, woken, value, data,
                   tmp, iters>>

Rw_poll_acquire_undo(t) ==
    /\ lockType \in {"FutureRwLock", "FutureMutex"}
    /\ pc[t] = "pa_undo"
    /\ Rw_try_acquire_read_undo(t, "pa_err")
    /\ UNCHANGED <<aux, lockType, locked, waiters, req, held, queued, waker, woken,
                   value, data, tmp, iters, tries>>

\* FutureRwLock::try_read (spin = FALSE), spin_read / spin_write (spin = TRUE,
\* a loop of try_read / try_write): one lock-free attempt
FutureRwLock_try(t) ==
    /\ lockType = "FutureRwLock"
    /\ \E r \in {"Read", "Write"}, spin \in BOOLEAN :
        /\ r = "Write" => spin
        /\ \/ pc[t] = "idle"
           \/ pc[t] = "spin" /\ req[t] = r /\ spin
        /\ IF r = "Read"
           THEN Rw_try_acquire_read(t, "hold", IF spin THEN "spin_undo" ELSE "try_undo")
           ELSE IF permit = 0
                THEN Rw_try_acquire_write(t, "hold", "idle")
                ELSE /\ pc' = [pc EXCEPT ![t] = "spin"]
                     /\ req' = [req EXCEPT ![t] = r]
                     /\ UNCHANGED <<permit, held, nest>>
    /\ UNCHANGED <<aux, lockType, locked, waiters, queued, waker, woken, value, data,
                   tmp, iters, tries>>

FutureRwLock_try_undo(t) ==
    /\ lockType = "FutureRwLock"
    /\ pc[t] \in {"try_undo", "spin_undo"}
    /\ Rw_try_acquire_read_undo(t, IF pc[t] = "spin_undo" THEN "spin" ELSE "idle")
    /\ req' = [req EXCEPT ![t] = IF pc[t] = "spin_undo" THEN "Read" ELSE "None"]
    /\ UNCHANGED <<aux, lockType, locked, waiters, held, queued, waker, woken, value,
                   data, tmp, iters, tries>>

\* FutureMutex::try_lock (spin = FALSE) and spin_lock (spin = TRUE)
FutureMutex_try_lock(t) ==
    /\ lockType = "FutureMutex"
    /\ iters[t] < LoopCnt
    /\ \E spin \in BOOLEAN :
        /\ \/ pc[t] = "idle"
           \/ pc[t] = "spin" /\ spin
        /\ IF permit = 0
           THEN Rw_try_acquire_write(t, "hold", "idle")
           ELSE /\ pc' = [pc EXCEPT ![t] = IF spin THEN "spin" ELSE "idle"]
                /\ req' = [req EXCEPT ![t] = IF spin THEN "Write" ELSE "None"]
                /\ UNCHANGED <<permit, held, nest>>
    /\ UNCHANGED <<aux, lockType, locked, waiters, queued, waker, woken, value, data,
                   tmp, iters, tries>>

\* RwSemaphore::release_read / release_write: the fetch_sub / fetch_and
Rw_release_clear(t) ==
    /\ lockType \in {"FutureRwLock", "FutureMutex"}
    /\ pc[t] = "rel_clear"
    /\ IF held[t] = "Read"
       THEN /\ permit' = permit - RW_READER
            /\ pc' = [pc EXCEPT ![t] = IF permit = RW_READER THEN "rel_wake" ELSE "rel_done"]
       ELSE /\ permit' = AndNot(permit, RW_WRITER)
            /\ pc' = [pc EXCEPT ![t] = "rel_wake"]
    /\ held' = [held EXCEPT ![t] = "None"]
    /\ tmp' = [tmp EXCEPT ![t] = 0]
    /\ UNCHANGED <<aux, lockType, nest, locked, waiters, req, queued, waker, woken, value,
                   data, iters, tries>>

\* RwdSemaphore::reader_count / RwSemaphore::reader_count
reader_count ==
    IF lockType = "FutureRwdLock" THEN permit \div READER ELSE permit \div RW_READER

\* ------------------------------------------------ the payload in the tests
RECURSIVE SumIters(_)
SumIters(n) == IF n = 0 THEN 0 ELSE iters[n] + SumIters(n - 1)

\* the number of completed increments of the payload
Increments == SumIters(NTasks)

\* handle1: `*guard += 1`, the load
handle1_load(t) ==
    /\ lockType = "FutureMutex"
    /\ pc[t] = "hold"
    /\ tmp' = [tmp EXCEPT ![t] = data]
    /\ pc' = [pc EXCEPT ![t] = "cs_store"]
    /\ UNCHANGED <<aux, lockType, nest, permit, locked, waiters, req, held, queued, waker,
                   woken, value, data, iters, tries>>

\* handle1: `*guard += 1`, the store; the guard is dropped next
handle1_store(t) ==
    /\ lockType = "FutureMutex"
    /\ pc[t] = "cs_store"
    /\ data' = tmp[t] + 1
    /\ iters' = [iters EXCEPT ![t] = @ + 1]
    /\ pc' = [pc EXCEPT ![t] = "cs_done"]
    /\ UNCHANGED <<aux, lockType, nest, permit, locked, waiters, req, held, queued, waker,
                   woken, value, tmp, tries>>

\* rwlock_test1, the writer: `let tmp = *lock;`
writer_load(t) ==
    /\ lockType = "FutureRwLock"
    /\ pc[t] = "hold"
    /\ held[t] = "Write"
    /\ Increments < LoopCnt
    /\ tmp' = [tmp EXCEPT ![t] = data]
    /\ pc' = [pc EXCEPT ![t] = "cs_sentinel"]
    /\ UNCHANGED <<aux, lockType, nest, permit, locked, waiters, req, held, queued, waker,
                   woken, value, data, iters, tries>>

\* rwlock_test1, the writer: `*lock = -1;`
writer_sentinel(t) ==
    /\ lockType = "FutureRwLock"
    /\ pc[t] = "cs_sentinel"
    /\ data' = -1
    /\ pc' = [pc EXCEPT ![t] = "cs_store"]
    /\ UNCHANGED <<aux, lockType, nest, permit, locked, waiters, req, held, queued, waker,
                   woken, value, tmp, iters, tries>>

\* rwlock_test1, the writer: `*lock = tmp + 1;`
writer_store(t) ==
    /\ lockType = "FutureRwLock"
    /\ pc[t] = "cs_store"
    /\ data' = tmp[t] + 1
    /\ tmp' = [tmp EXCEPT ![t] = 0]
    /\ iters' = [iters EXCEPT ![t] = @ + 1]
    /\ pc' = [pc EXCEPT ![t] = "hold"]
    /\ UNCHANGED <<aux, lockType, nest, permit, locked, waiters, req, held, queued, waker,
                   woken, value, tries>>

\* rwlock_test1, a reader: `*lock` under the read guard
reader_load(t) ==
    /\ lockType = "FutureRwLock"
    /\ pc[t] = "hold"
    /\ held[t] = "Read"
    /\ tmp' = [tmp EXCEPT ![t] = data]
    /\ pc' = [pc EXCEPT ![t] = "cs_done"]
    /\ UNCHANGED <<aux, lockType, nest, permit, locked, waiters, req, held, queued, waker,
                   woken, value, data, iters, tries>>

\* ------------------------------------- upgrade / downgrade (FutureRwdLock)

\* FutureRwdLockWriteGuard::downgrade_read, FutureRwdLockDiskGuard::downgrade_read:
\* mem::forget(self), then try_downgrade_read(old).unwrap().  The
\* compare_exchange(old, READER) either succeeds (wake_reader follows, under
\* the queue lock) or the unwrap panics with the guard already forgotten.
Guard_downgrade_read(t) ==
    /\ lockType = "FutureRwdLock"
    /\ pc[t] = "hold"
    /\ held[t] \in {"Write", "Disk"}
    /\ IF permit = TierBit(held[t])
       THEN /\ permit' = READER
            /\ held' = [held EXCEPT ![t] = "Read"]
            /\ pc' = [pc EXCEPT ![t] = "dg_lock"]
            /\ UNCHANGED req
       ELSE /\ pc' = [pc EXCEPT ![t] = "panicked"]
            /\ req' = [req EXCEPT ![t] = "Read"]
            /\ UNCHANGED <<permit, held>>
    /\ UNCHANGED <<aux, lockType, nest, locked, waiters, queued, waker, woken, value,
                   data, tmp, iters, tries>>

\* try_downgrade_read: self.waiters.lock()
try_downgrade_read_lock(t) ==
    /\ pc[t] = "dg_lock"
    /\ ~locked
    /\ locked' = TRUE
    /\ pc' = [pc EXCEPT ![t] = "dg_wake"]
    /\ nest' = [nest EXCEPT ![t] = @ + 1]
    /\ UNCHANGED <<aux, lockType, permit, waiters, req, held, queued, waker, woken,
                   value, data, tmp, iters, tries>>

\* try_downgrade_read: wake_reader, then the queue lock is dropped
try_downgrade_read_wake(t) ==
    /\ pc[t] = "dg_wake"
    /\ waiters' = wake_reader_queue(waiters)
    /\ woken' = Waiter_wake(wake_reader_woken(waiters))
    /\ locked' = FALSE
    /\ pc' = [pc EXCEPT ![t] = "hold"]
    /\ nest' = [nest EXCEPT ![t] = @ - 1]
    /\ UNCHANGED <<aux, lockType, permit, req, held, queued, waker, value, data, tmp, iters, tries>>

\* FutureRwdLockDiskGuard::downgrade_write: compare_exchange(DISK, WRITER), unwrap
Guard_downgrade_write(t) ==
    /\ lockType = "FutureRwdLock"
    /\ pc[t] = "hold"
    /\ held[t] = "Disk"
    /\ IF permit = DISK
       THEN /\ permit' = WRITER
            /\ held' = [held EXCEPT ![t] = "Write"]
            /\ UNCHANGED <<pc, req>>
       ELSE /\ pc' = [pc EXCEPT ![t] = "panicked"]
            /\ req' = [req EXCEPT ![t] = "Write"]
            /\ UNCHANGED <<permit, held>>
    /\ UNCHANGED <<aux, lockType, nest, locked, waiters, queued, waker, woken, value,
                   data, tmp, iters, tries>>

\* FutureRwdLockWriteGuard::upgrade_disk: compare_exchange(WRITER, DISK), unwrap
Guard_upgrade_disk(t) ==
    /\ lockType = "FutureRwdLock"
    /\ pc[t] = "hold"
    /\ held[t] = "Write"
    /\ IF permit = WRITER
       THEN /\ permit' = DISK
            /\ held' = [held EXCEPT ![t] = "Disk"]
            /\ UNCHANGED <<pc, req>>
       ELSE /\ pc' = [pc EXCEPT ![t] = "panicked"]
            /\ req' = [req EXCEPT ![t] = "Disk"]
            /\ UNCHANGED <<permit, held>>
    /\ UNCHANGED <<aux, lockType, nest, locked, waiters, queued, waker, woken, value,
                   data, tmp, iters, tries>>

\* mutant: a fetch_or in place of the fetch_update, the old word tested after
read_upgrade_reserve_fetch_or(t, r) ==
    /\ permit' = Or(permit, TierBit(r))
    /\ IF ~BitSet(permit, WRITER) /\ ~BitSet(permit, DISK)
       THEN /\ req' = [req EXCEPT ![t] = r]
            /\ pc' = [pc EXCEPT ![t] = "up_spin"]
       ELSE /\ pc' = [pc EXCEPT ![t] = "up_err"]
            /\ UNCHANGED req

\* read_upgrade, first step: fetch_update sets the target bit while neither
\* WRITER nor DISK is set, else Err
read_upgrade_reserve(t, r) ==
    IF ~BitSet(permit, WRITER) /\ ~BitSet(permit, DISK)
    THEN /\ permit' = Or(permit, TierBit(r))
         /\ req' = [req EXCEPT ![t] = r]
         /\ pc' = [pc EXCEPT ![t] = "up_spin"]
    ELSE /\ pc' = [pc EXCEPT ![t] = "up_err"]
         /\ UNCHANGED <<permit, req>>

\* FutureRwdLockReadGuard::try_upgrade_write / try_upgrade_disk: the call of
\* read_upgrade_write / read_upgrade_disk; on Err the guard is handed back
Guard_try_upgrade(t) ==
    /\ lockType = "FutureRwdLock"
    /\ pc[t] = "hold"
    /\ held[t] = "Read"
    /\ \E r \in {"Write", "Disk"} : read_upgrade_reserve(t, r)
    /\ UNCHANGED <<aux, lockType, nest, locked, waiters, held, queued, waker, woken, value,
                   data, tmp, iters, tries>>

\* try_upgrade_write / try_upgrade_disk after a failed attempt: Err(self),
\* the read guard is back in the caller's hands
Guard_try_upgrade_err(t) ==
    /\ pc[t] = "up_err"
    /\ pc' = [pc EXCEPT ![t] = "hold"]
    /\ UNCHANGED <<aux, lockType, nest, permit, locked, waiters, req, held, queued, waker,
                   woken, value, data, tmp, iters, tries>>

\* RwdSemaphore::try_upgrade_write(READER) / try_upgrade_disk(READER) called
\* by the owner of a reader step: compare_exchange(READER, bit)
RwdSemaphore_try_upgrade(t) ==
    /\ lockType = "FutureRwdLock"
    /\ pc[t] = "hold"
    /\ held[t] = "Read"
    /\ \E r \in {"Write", "Disk"} :
        IF permit = READER
        THEN /\ permit' = TierBit(r)
             /\ held' = [held EXCEPT ![t] = r]
             /\ UNCHANGED pc
        ELSE /\ pc' = [pc EXCEPT ![t] = "up_err"]
             /\ UNCHANGED <<permit, held>>
    /\ UNCHANGED <<aux, lockType, nest, locked, waiters, req, queued, waker, woken, value,
                   data, tmp, iters, tries>>

\* mutant: the loop swaps in the target encoding whatever the reader count
read_upgrade_spin_any_count(t) ==
    /\ pc[t] = "up_spin"
    /\ permit' = TierBit(req[t])
    /\ held' = [held EXCEPT ![t] = req[t]]
    /\ req' = [req EXCEPT ![t] = "None"]
    /\ pc' = [pc EXCEPT ![t] = "hold"]
    /\ UNCHANGED <<aux, lockType, nest, locked, waiters, queued, waker, woken, value,
                   data, tmp, iters, tries>>

\* read_upgrade, the loop: compare_exchange(READER | new, new); on success
\* the read guard is forgotten and the write / disk guard returned
read_upgrade_spin(t) ==
    /\ pc[t] = "up_spin"
    /\ IF permit = READER + TierBit(req[t])
       THEN /\ permit' = TierBit(req[t])
            /\ held' = [held EXCEPT ![t] = req[t]]
            /\ req' = [req EXCEPT ![t] = "None"]
            /\ pc' = [pc EXCEPT ![t] = "hold"]
       ELSE UNCHANGED <<permit, held, req, pc>>
    /\ UNCHANGED <<aux, lockType, nest, locked, waiters, queued, waker, woken, value,
                   data, tmp, iters, tries>>

\* -------------------------------------------------------------------- leak
\* ReadGuard::leak / WriteGuard::leak / DiskGuard::leak: N::pop_off(), then
\* the write and disk guards are passed to mem::forget; the read guard is
\* taken apart by a pattern that copies its fields and is still owned by
\* `this` when leak returns
Guard_leak(t) ==
    /\ lockType \in {"FutureRwdLock", "FutureRwLock"}
    /\ pc[t] = "hold"
    /\ ~leaked[t]
    /\ leaked' = [leaked EXCEPT ![t] = TRUE]
    /\ nest' = [nest EXCEPT ![t] = @ - 1]
    /\ pc' = [pc EXCEPT ![t] = IF held[t] = "Read" THEN "leak_end" ELSE "leaked"]
    /\ UNCHANGED <<nestVars, mcsVars, wakerVars, lsVars, tkVars, lockType, permit, locked, waiters,
                   req, held, queued, waker, woken, value, data, tmp, iters, tries>>

\* ReadGuard::leak, the end of its body: `this` goes out of scope and
\* Drop for the read guard enters release_read
ReadGuard_leak_end(t) ==
    /\ pc[t] = "leak_end"
    /\ pc' = [pc EXCEPT ![t] = "rel_lock"]
    /\ UNCHANGED <<aux, lockType, nest, permit, locked, waiters, req, held, queued,
                   waker, woken, value, data, tmp, iters, tries>>

\* ---------------------------------------------- polls and their wake handles
\* Waker::will_wake
will_wake(a, b) == a = b

\* FutureRwLock::read / write with the Context of the first poll: the Waiter
\* is new (waker: None), so AcquireFuture::poll stores cx.waker().clone()
\* and its assertion holds
AcquireFuture_first_poll(t) ==
    /\ lockType = "FutureRwLock"
    /\ pc[t] = "idle"
    /\ \E r \in {"Read", "Write"} : req' = [req EXCEPT ![t] = r]
    /\ \E w \in Wakers :
        /\ wakerOf' = [wakerOf EXCEPT ![t] = w]
        /\ cx' = [cx EXCEPT ![t] = w]
    /\ queued' = [queued EXCEPT ![t] = FALSE]
    /\ waker' = [waker EXCEPT ![t] = TRUE]
    /\ woken' = [woken EXCEPT ![t] = FALSE]
    /\ pc' = [pc EXCEPT ![t] = "pa_lock"]
    /\ UNCHANGED <<nestVars, mcsVars, leaked, lsVars, tkVars, lockType, nest, permit, locked, waiters, held,
                   value, data, tmp, iters, tries>>

\* mutant: every poll stores the waker of its Context
AcquireFuture_poll_cx_replaces(t) ==
    /\ pc[t] = "pending"
    /\ woken[t]
    /\ \E w \in Wakers :
        /\ cx' = [cx EXCEPT ![t] = w]
        /\ wakerOf' = [wakerOf EXCEPT ![t] = w]
        /\ pc' = [pc EXCEPT ![t] = "pa_lock"]
    /\ woken' = [woken EXCEPT ![t] = FALSE]
    /\ UNCHANGED <<nestVars, mcsVars, leaked, lsVars, tkVars, lockType, nest, permit, locked, waiters, req,
                   held, queued, waker, value, data, tmp, iters, tries>>

\* AcquireFuture::poll of a pending future with the Context's waker w: the
\* stored waker is kept (it is Some), assert!(cx.waker().will_wake(stored))
\* panics or lets the poll go on to poll_acquire
AcquireFuture_poll_cx(t) ==
    /\ pc[t] = "pending"
    /\ woken[t]
    /\ \E w \in Wakers :
        /\ cx' = [cx EXCEPT ![t] = w]
        /\ wakerOf' = [wakerOf EXCEPT ![t] = IF wakerOf[t] = 0 THEN w ELSE @]
        /\ pc' = [pc EXCEPT ![t] =
                    IF will_wake(w, IF wakerOf[t] = 0 THEN w ELSE wakerOf[t])
                    THEN "pa_lock" ELSE "panicked"]
    /\ woken' = [woken EXCEPT ![t] = FALSE]
    /\ UNCHANGED <<nestVars, mcsVars, leaked, lsVars, tkVars, lockType, nest, permit, locked, waiters, req,
                   held, queued, waker, value, data, tmp, iters, tries>>

\* ================================================ interrupt-nesting counter
\* NoIrqNest::push_off -> interrupt::push_off: at depth 0 record whether
\* interrupts are enabled; mask them; increment the depth
NoIrqNest_push_off(c) ==
    /\ strategy = "NoIrqNest"
    /\ ~fault[c]
    /\ depth[c] < MaxDepth
    /\ IF depth[c] = 0
       THEN /\ saved' = [saved EXCEPT ![c] = enabled[c]]
            /\ pre' = [pre EXCEPT ![c] = enabled[c]]
            /\ restores' = [restores EXCEPT ![c] = 0]
            /\ peak' = [peak EXCEPT ![c] = 1]
       ELSE /\ peak' = [peak EXCEPT ![c] = IF depth[c] + 1 > @ THEN depth[c] + 1 ELSE @]
            /\ UNCHANGED <<saved, pre, restores>>
    /\ enabled' = [enabled EXCEPT ![c] = FALSE]
    /\ depth' = [depth EXCEPT ![c] = @ + 1]
    /\ UNCHANGED <<lockVars, mcsVars, wakerVars, leaked, lsVars, tkVars, strategy, fault>>

\* mutant: interrupts are restored by every pop_off
NoIrqNest_pop_off_restores_always(c) ==
    /\ strategy = "NoIrqNest"
    /\ ~fault[c]
    /\ IF depth[c] = 0
       THEN /\ fault' = [fault EXCEPT ![c] = TRUE]
            /\ UNCHANGED <<depth, enabled, restores>>
       ELSE /\ depth' = [depth EXCEPT ![c] = @ - 1]
            /\ enabled' = [enabled EXCEPT ![c] = saved[c]]
            /\ restores' = [restores EXCEPT ![c] = @ + 1]
            /\ UNCHANGED fault
    /\ UNCHANGED <<lockVars, mcsVars, wakerVars, leaked, lsVars, tkVars, strategy, saved, pre, peak>>

\* NoIrqNest::pop_off -> interrupt::pop_off: decrement the depth; at depth 0
\* restore interrupts to the recorded state.  A pop_off at depth 0 is a
\* programming-error fault.
NoIrqNest_pop_off(c) ==
    /\ strategy = "NoIrqNest"
    /\ ~fault[c]
    /\ IF depth[c] = 0
       THEN /\ fault' = [fault EXCEPT ![c] = TRUE]
            /\ UNCHANGED <<depth, enabled, restores>>
       ELSE /\ depth' = [depth EXCEPT ![c] = @ - 1]
            /\ IF depth[c] = 1
               THEN /\ enabled' = [enabled EXCEPT ![c] = saved[c]]
                    /\ restores' = [restores EXCEPT ![c] = @ + 1]
               ELSE UNCHANGED <<enabled, restores>>
            /\ UNCHANGED fault
    /\ UNCHANGED <<lockVars, mcsVars, wakerVars, leaked, lsVars, tkVars, strategy, saved, pre, peak>>

\* MockNest::push_off / MockNest::pop_off: empty bodies
MockNest_push_off(c) ==
    /\ strategy = "MockNest"
    /\ UNCHANGED vars

MockNest_pop_off(c) ==
    /\ strategy = "MockNest"
    /\ UNCHANGED vars

\* ======================================================= dual-channel lock
\* a guard of channel ch is handed to task t
ChannelTaken(t, ch) ==
    /\ chLocked' = [chLocked EXCEPT ![ch] = TRUE]
    /\ mheld' = [mheld EXCEPT ![t] = @ \cup {ch}]
    /\ mpc' = [mpc EXCEPT ![t] = "idle"]
    /\ mch' = [mch EXCEPT ![t] = "None"]

\* MCSLock::lock: compare_exchange_weak(false, true), which may also fail
\* on a clear flag; on failure the inner is_locked loop is entered
MCSLock_lock(t) ==
    /\ mcsType = "MCSLock"
    /\ \E ch \in Channels :
        /\ mpc[t] = "idle" \/ (mpc[t] = "retry" /\ mch[t] = ch)
        /\ \/ ~chLocked[ch] /\ ChannelTaken(t, ch)
           \/ /\ mpc' = [mpc EXCEPT ![t] = "wait"]
              /\ mch' = [mch EXCEPT ![t] = ch]
              /\ UNCHANGED <<chLocked, mheld>>
    /\ UNCHANGED <<lockVars, nestVars, wakerVars, leaked, lsVars, tkVars, mcsType, chWaiters, mqueued, mwoken>>

\* MCSLock::lock, the inner loop: `while self.is_locked(channel)`
MCSLock_is_locked(t) ==
    /\ mcsType = "MCSLock"
    /\ mpc[t] = "wait"
    /\ ~chLocked[mch[t]]
    /\ mpc' = [mpc EXCEPT ![t] = "retry"]
    /\ UNCHANGED <<lockVars, nestVars, wakerVars, leaked, lsVars, tkVars, mcsType, chLocked, chWaiters, mch, mheld,
                   mqueued, mwoken>>

\* mutant: try_lock succeeds only when neither channel is held
MCSLock_try_lock_any_channel(t) ==
    /\ mcsType = "MCSLock"
    /\ mpc[t] = "idle"
    /\ \E ch \in Channels :
        IF \A c \in Channels : ~chLocked[c]
        THEN ChannelTaken(t, ch)
        ELSE /\ mpc' = [mpc EXCEPT ![t] = "none"]
             /\ mch' = [mch EXCEPT ![t] = ch]
             /\ UNCHANGED <<chLocked, mheld>>
    /\ UNCHANGED <<lockVars, nestVars, wakerVars, leaked, lsVars, tkVars, mcsType, chWaiters, mqueued, mwoken>>

\* MCSLock::try_lock: compare_exchange(false, true); Some(guard) or None
MCSLock_try_lock(t) ==
    /\ mcsType = "MCSLock"
    /\ mpc[t] = "idle"
    /\ \E ch \in Channels :
        IF ~chLocked[ch]
        THEN ChannelTaken(t, ch)
        ELSE /\ mpc' = [mpc EXCEPT ![t] = "none"]
             /\ mch' = [mch EXCEPT ![t] = ch]
             /\ UNCHANGED <<chLocked, mheld>>
    /\ UNCHANGED <<lockVars, nestVars, wakerVars, leaked, lsVars, tkVars, mcsType, chWaiters, mqueued, mwoken>>

\* the caller of try_lock goes on after a None
try_lock_none(t) ==
    /\ mpc[t] = "none"
    /\ mpc' = [mpc EXCEPT ![t] = "idle"]
    /\ mch' = [mch EXCEPT ![t] = "None"]
    /\ UNCHANGED <<lockVars, nestVars, wakerVars, leaked, lsVars, tkVars, mcsType, chLocked, chWaiters, mheld,
                   mqueued, mwoken>>

\* Drop for MCSLockGuard: locked[channel].store(false)
MCSLockGuard_drop(t) ==
    /\ mcsType = "MCSLock"
    /\ mpc[t] = "idle"
    /\ \E ch \in mheld[t] :
        /\ chLocked' = [chLocked EXCEPT ![ch] = FALSE]
        /\ mheld' = [mheld EXCEPT ![t] = @ \ {ch}]
    /\ UNCHANGED <<lockVars, nestVars, wakerVars, leaked, lsVars, tkVars, mcsType, chWaiters, mpc, mch, mqueued, mwoken>>

\* FutureMCSLock::try_lock and one pass of spin_lock's loop:
\* lock[channel].try_acquire_write(), a compare_exchange(0, WRITER)
FutureMCSLock_try_lock(t) ==
    /\ mcsType = "FutureMCSLock"
    /\ \E ch \in Channels, spin \in BOOLEAN :
        /\ mpc[t] = "idle" \/ (mpc[t] = "retry" /\ mch[t] = ch /\ spin)
        /\ IF ~chLocked[ch]
           THEN ChannelTaken(t, ch)
           ELSE /\ mpc' = [mpc EXCEPT ![t] = IF spin THEN "retry" ELSE "none"]
                /\ mch' = [mch EXCEPT ![t] = ch]
                /\ UNCHANGED <<chLocked, mheld>>
    /\ UNCHANGED <<lockVars, nestVars, wakerVars, leaked, lsVars, tkVars, mcsType, chWaiters, mqueued, mwoken>>

\* FutureMCSLock::lock: one poll of lock[channel].acquire_write(), the whole
\* critical section of poll_acquire under that semaphore's queue lock (one
\* compare_exchange on the permit; on failure the node is pushed unless
\* `queued` is set)
FutureMCSLock_lock(t) ==
    /\ mcsType = "FutureMCSLock"
    /\ \E ch \in Channels :
        /\ \/ mpc[t] = "idle"
           \/ mpc[t] = "pending" /\ mch[t] = ch /\ mwoken[t]
        /\ IF ~chLocked[ch]
           THEN /\ ChannelTaken(t, ch)
                /\ mqueued' = [mqueued EXCEPT ![t] = FALSE]
                /\ UNCHANGED chWaiters
           ELSE /\ mpc' = [mpc EXCEPT ![t] = "pending"]
                /\ mch' = [mch EXCEPT ![t] = ch]
                /\ mqueued' = [mqueued EXCEPT ![t] = TRUE]
                /\ chWaiters' =
                      IF mpc[t] = "pending" /\ mqueued[t] THEN chWaiters
                      ELSE [chWaiters EXCEPT ![ch] = Append(@, t)]
                /\ UNCHANGED <<chLocked, mheld>>
    /\ mwoken' = [mwoken EXCEPT ![t] = FALSE]
    /\ UNCHANGED <<lockVars, nestVars, wakerVars, leaked, lsVars, tkVars, mcsType>>

\* Drop for FutureMCSLockGuard: lock[channel].release_write(), the whole
\* critical section under that semaphore's queue lock: fetch_and(!WRITER),
\* then wake_next (every waiter of a channel is a writer: the head alone)
FutureMCSLockGuard_drop(t) ==
    /\ mcsType = "FutureMCSLock"
    /\ mpc[t] = "idle"
    /\ \E ch \in mheld[t] :
        /\ chLocked' = [chLocked EXCEPT ![ch] = FALSE]
        /\ mheld' = [mheld EXCEPT ![t] = @ \ {ch}]
        /\ IF chWaiters[ch] = << >>
           THEN UNCHANGED <<chWaiters, mwoken>>
           ELSE /\ chWaiters' = [chWaiters EXCEPT ![ch] = Tail(@)]
                /\ mwoken' = [mwoken EXCEPT ![Head(chWaiters[ch])] = TRUE]
    /\ UNCHANGED <<lockVars, nestVars, wakerVars, leaked, lsVars, tkVars, mcsType, mpc, mch, mqueued>>

McsSteps(t) ==
    \/ MCSLock_lock(t)
    \/ MCSLock_is_locked(t)
    \/ MCSLock_try_lock(t)
    \/ try_lock_none(t)
    \/ MCSLockGuard_drop(t)
    \/ FutureMCSLock_try_lock(t)
    \/ FutureMCSLock_lock(t)
    \/ FutureMCSLockGuard_drop(t)

\* the steps every lock shares
Shared(t) ==
    \/ AcquireFuture_poll(t)
    \/ poll_acquire_lock(t)
    \/ poll_acquire_err(t)
    \/ poll_acquire_ok(t)
    \/ Guard_drop(t)
    \/ release_lock(t)
    \/ release_wake(t)

RwdSteps(t) ==
    \/ FutureRwdLock_acquire(t)
    \/ Rwd_poll_acquire_try(t)
    \/ Rwd_poll_acquire_undo(t)
    \/ FutureRwdLock_try(t)
    \/ FutureRwdLock_try_undo(t)
    \/ Rwd_release_clear(t)
    \/ release_done(t)
    \/ Guard_downgrade_read(t)
    \/ try_downgrade_read_lock(t)
    \/ try_downgrade_read_wake(t)
    \/ Guard_downgrade_write(t)
    \/ Guard_upgrade_disk(t)
    \/ Guard_try_upgrade(t)
    \/ Guard_try_upgrade_err(t)
    \/ RwdSemaphore_try_upgrade(t)
    \/ read_upgrade_spin(t)

RwSteps(t) ==
    \/ FutureRwLock_acquire(t)
    \/ Rw_poll_acquire_try(t)
    \/ Rw_poll_acquire_undo(t)
    \/ FutureRwLock_try(t)
    \/ FutureRwLock_try_undo(t)
    \/ Rw_release_clear(t)
    \/ release_done(t)

PayloadSteps(t) ==
    \/ writer_load(t)
    \/ writer_sentinel(t)
    \/ writer_store(t)
    \/ reader_load(t)

MutexSteps(t) ==
    \/ FutureMutex_lock(t)
    \/ FutureMutex_try_lock(t)
    \/ Rw_poll_acquire_try(t)
    \/ Rw_release_clear(t)
    \/ handle1_load(t)
    \/ handle1_store(t)

\* both semaphore engines, payload left alone
Next == \E t \in Tasks : Shared(t) \/ RwdSteps(t) \/ RwSteps(t)
Spec == Init /\ [][Next]_vars

\* the three-tier lock alone
InitRwd == InitTasks /\ lockType = "FutureRwdLock"
NextRwd == \E t \in Tasks : Shared(t) \/ RwdSteps(t)
SpecRwd == InitRwd /\ [][NextRwd]_vars

\* FutureRwLock with the payload accesses of rwlock_test1
InitRw == InitTasks /\ lockType = "FutureRwLock"
NextRw == \E t \in Tasks : Shared(t) \/ RwSteps(t) \/ PayloadSteps(t)
SpecRw == InitRw /\ [][NextRw]_vars

\* FutureMutex with the tasks of mutex_test1
InitMutex == InitTasks /\ lockType = "FutureMutex"
NextMutex == \E t \in Tasks : Shared(t) \/ MutexSteps(t)
SpecMutex == InitMutex /\ [][NextMutex]_vars

\* the two-tier semaphore, acquisition futures may be dropped before they
\* are ready
NextAbandon == \E t \in Tasks : Shared(t) \/ RwSteps(t) \/ AcquireFuture_drop(t)
SpecAbandon == InitRw /\ [][NextAbandon]_vars

\* the interrupt-nesting counter of each execution context, either strategy,
\* interrupts enabled or not when the first push_off is made
InitNest ==
    /\ InitLock
    /\ InitWakers
    /\ InitLs
    /\ InitTicket
    /\ lockType = "FutureRwLock"
    /\ mcsType = "MCSLock"
    /\ InitChannels
    /\ strategy \in {"NoIrqNest", "MockNest"}
    /\ enabled \in [Contexts -> BOOLEAN]
    /\ InitNestIdle
NextNest ==
    \E c \in Contexts :
        \/ NoIrqNest_push_off(c)
        \/ NoIrqNest_pop_off(c)
        \/ MockNest_push_off(c)
        \/ MockNest_pop_off(c)
SpecNest == InitNest /\ [][NextNest]_vars

\* both semaphore engines, guards may be leaked
NextLeak ==
    \E t \in Tasks :
        Shared(t) \/ RwdSteps(t) \/ RwSteps(t) \/ Guard_leak(t) \/ ReadGuard_leak_end(t)
SpecLeak == Init /\ [][NextLeak]_vars

\* the two-tier semaphore, every poll made with the waker of some Context
NextWaker ==
    \E t \in Tasks :
        \/ AcquireFuture_first_poll(t)
        \/ AcquireFuture_poll_cx(t)
        \/ poll_acquire_lock(t)
        \/ Rw_poll_acquire_try(t)
        \/ Rw_poll_acquire_undo(t)
        \/ poll_acquire_err(t)
        \/ poll_acquire_ok(t)
        \/ FutureRwLock_try(t)
        \/ FutureRwLock_try_undo(t)
        \/ Guard_drop(t)
        \/ release_lock(t)
        \/ Rw_release_clear(t)
        \/ release_wake(t)
        \/ release_done(t)
SpecWaker == InitRw /\ [][NextWaker]_vars

\* the dual-channel locks, spinning or suspending
InitMcs ==
    /\ InitLock
    /\ InitWakers
    /\ InitLs
    /\ InitTicket
    /\ lockType = "FutureRwLock"
    /\ strategy = "MockNest"
    /\ enabled = [c \in Contexts |-> TRUE]
    /\ InitNestIdle
    /\ mcsType \in {"MCSLock", "FutureMCSLock"}
    /\ InitChannels
NextMcs == \E t \in Tasks : McsSteps(t)
SpecMcs == InitMcs /\ [][NextMcs]_vars

\* ------------------------------------------- formatting a FutureMCSLock
\* lock[ch].try_acquire_write() made by task t: N::push_off(), then
\* compare_exchange(0, WRITER); N::pop_off() on failure only
Semaphore_try_acquire_write(t, ch) ==
    IF ~chLocked[ch]
    THEN /\ chLocked' = [chLocked EXCEPT ![ch] = TRUE]
         /\ nest' = [nest EXCEPT ![t] = @ + 1]
    ELSE UNCHANGED <<chLocked, nest>>

\* FutureMCSLock::try_lock with the nesting depth of the caller
FutureMCSLock_try_lock_N(t) ==
    /\ mpc[t] = "idle"
    /\ \E ch \in Channels :
        /\ Semaphore_try_acquire_write(t, ch)
        /\ IF ~chLocked[ch]
           THEN /\ mheld' = [mheld EXCEPT ![t] = @ \cup {ch}]
                /\ UNCHANGED <<mpc, mch>>
           ELSE /\ mpc' = [mpc EXCEPT ![t] = "none"]
                /\ mch' = [mch EXCEPT ![t] = ch]
                /\ UNCHANGED mheld
    /\ UNCHANGED <<lockType, permit, locked, waiters, pc, req, held, queued, waker, woken,
                   value, data, tmp, iters, tries,
                   nestVars, wakerVars, leaked, lsVars, tkVars, mcsType, chWaiters, mqueued, mwoken>>

\* the caller of try_lock goes on after a None
FutureMCSLock_try_lock_none_N(t) ==
    /\ mpc[t] = "none"
    /\ mpc' = [mpc EXCEPT ![t] = "idle"]
    /\ mch' = [mch EXCEPT ![t] = "None"]
    /\ UNCHANGED <<lockVars, nestVars, wakerVars, leaked, lsVars, tkVars, mcsType, chLocked, chWaiters,
                   mheld, mqueued, mwoken>>

\* Drop for FutureMCSLockGuard: release_write, its fetch_and(!WRITER) and
\* its N::pop_off() (no acquisition is ever queued here: wake_next finds
\* the queue empty)
FutureMCSLockGuard_drop_N(t) ==
    /\ mpc[t] = "idle"
    /\ \E ch \in mheld[t] :
        /\ chLocked' = [chLocked EXCEPT ![ch] = FALSE]
        /\ mheld' = [mheld EXCEPT ![t] = @ \ {ch}]
    /\ nest' = [nest EXCEPT ![t] = @ - 1]
    /\ UNCHANGED <<lockType, permit, locked, waiters, pc, req, held, queued, waker, woken,
                   value, data, tmp, iters, tries,
                   nestVars, wakerVars, leaked, lsVars, tkVars, mcsType, chWaiters, mpc, mch,
                   mqueued, mwoken>>

\* Display for FutureMCSLock, first argument of write!:
\* lock[Normal].try_acquire_write().is_err()
FutureMCSLock_fmt_Normal(t) ==
    /\ mpc[t] = "idle"
    /\ Semaphore_try_acquire_write(t, "Normal")
    /\ mpc' = [mpc EXCEPT ![t] = "fmt"]
    /\ UNCHANGED <<lockType, permit, locked, waiters, pc, req, held, queued, waker, woken,
                   value, data, tmp, iters, tries,
                   nestVars, wakerVars, leaked, lsVars, tkVars, mcsType, chWaiters, mch, mheld,
                   mqueued, mwoken>>

\* Display for FutureMCSLock, second argument:
\* lock[Interrupt].try_acquire_write().is_err(); the text is then written
FutureMCSLock_fmt_Interrupt(t) ==
    /\ mpc[t] = "fmt"
    /\ Semaphore_try_acquire_write(t, "Interrupt")
    /\ mpc' = [mpc EXCEPT ![t] = "idle"]
    /\ UNCHANGED <<lockType, permit, locked, waiters, pc, req, held, queued, waker, woken,
                   value, data, tmp, iters, tries,
                   nestVars, wakerVars, leaked, lsVars, tkVars, mcsType, chWaiters, mch, mheld,
                   mqueued, mwoken>>

\* the suspending dual-channel lock, try_lock, guard drop and formatting
InitFmt == InitMcs /\ mcsType = "FutureMCSLock"
NextFmt ==
    \E t \in Tasks :
        \/ FutureMCSLock_try_lock_N(t)
        \/ FutureMCSLock_try_lock_none_N(t)
        \/ FutureMCSLockGuard_drop_N(t)
        \/ FutureMCSLock_fmt_Normal(t)
        \/ FutureMCSLock_fmt_Interrupt(t)
SpecFmt == InitFmt /\ [][NextFmt]_vars

\* ============================================== long+short composite lock
\* LsLock: llock is a FutureMutex (a two-tier semaphore used for its writer
\* bit), slock a spinning reader/writer lock.  One step is one poll or one
\* try of llock, one successful or failed attempt on slock, or one guard drop.

\* LsLock::disk / read / write: one poll of self.llock.lock(), the critical
\* section of poll_acquire (one compare_exchange; on failure the node is
\* pushed unless `queued` is set)
LsLock_llock_poll(t) ==
    /\ lsheld[t] = "None"
    /\ \E op \in {"disk", "read", "write"} :
        /\ \/ lpc[t] = "idle"
           \/ lpc[t] = "pending" /\ lop[t] = op /\ lwoken[t]
        /\ lop' = [lop EXCEPT ![t] = op]
    /\ IF ~llocked
       THEN /\ llocked' = TRUE
            /\ lguard' = [lguard EXCEPT ![t] = TRUE]
            /\ lpc' = [lpc EXCEPT ![t] = "slock"]
            /\ lqueued' = [lqueued EXCEPT ![t] = FALSE]
            /\ UNCHANGED lwaiters
       ELSE /\ lpc' = [lpc EXCEPT ![t] = "pending"]
            /\ lqueued' = [lqueued EXCEPT ![t] = TRUE]
            /\ lwaiters' = IF lpc[t] = "pending" /\ lqueued[t] THEN lwaiters
                           ELSE Append(lwaiters, t)
            /\ UNCHANGED <<llocked, lguard>>
    /\ lwoken' = [lwoken EXCEPT ![t] = FALSE]
    /\ UNCHANGED <<base, tkVars, sreaders, swriter, lsheld>>

\* LsLock::try_read / try_write: self.llock.try_lock()
LsLock_llock_try(t) ==
    /\ lsheld[t] = "None"
    /\ lpc[t] = "idle"
    /\ \E op \in {"try_read", "try_write"} : lop' = [lop EXCEPT ![t] = op]
    /\ IF ~llocked
       THEN /\ llocked' = TRUE
            /\ lguard' = [lguard EXCEPT ![t] = TRUE]
            /\ lpc' = [lpc EXCEPT ![t] = "slock"]
       ELSE /\ lpc' = [lpc EXCEPT ![t] = "none"]
            /\ UNCHANGED <<llocked, lguard>>
    /\ UNCHANGED <<base, tkVars, lwaiters, sreaders, swriter, lsheld, lqueued, lwoken>>

\* LsLock::spin_read / spin_write: self.llock.spin_lock(), the try_lock of
\* its loop that succeeds
LsLock_llock_spin(t) ==
    /\ lsheld[t] = "None"
    /\ lpc[t] = "idle"
    /\ ~llocked
    /\ \E op \in {"spin_read", "spin_write"} : lop' = [lop EXCEPT ![t] = op]
    /\ llocked' = TRUE
    /\ lguard' = [lguard EXCEPT ![t] = TRUE]
    /\ lpc' = [lpc EXCEPT ![t] = "slock"]
    /\ UNCHANGED <<base, tkVars, lwaiters, sreaders, swriter, lsheld, lqueued, lwoken>>

\* slock grants a read guard / a write guard
slock_free(op) == IF op \in {"read", "try_read", "spin_read"} THEN ~swriter ELSE ~swriter /\ sreaders = 0

\* self.slock.read() / write() (they spin until granted) and
\* self.slock.try_read() / try_write() (None when not granted)
LsLock_slock(t) ==
    /\ lpc[t] = "slock"
    /\ IF slock_free(lop[t])
       THEN /\ IF lop[t] \in {"read", "try_read", "spin_read"}
               THEN sreaders' = sreaders + 1 /\ UNCHANGED swriter
               ELSE swriter' = TRUE /\ UNCHANGED sreaders
            /\ lpc' = [lpc EXCEPT ![t] = IF lop[t] = "disk" THEN "ret" ELSE "unlock"]
       ELSE /\ lop[t] \in {"try_read", "try_write"}
            /\ lpc' = [lpc EXCEPT ![t] = "try_fail"]
            /\ UNCHANGED <<sreaders, swriter>>
    /\ UNCHANGED <<base, tkVars, llocked, lwaiters, lop, lguard, lsheld, lqueued, lwoken>>

\* Drop for FutureMutexGuard on llock: release_write, its fetch_and and its
\* wake_next (every waiter is a writer: the head alone)
llock_release(t) ==
    /\ llocked' = FALSE
    /\ lguard' = [lguard EXCEPT ![t] = FALSE]
    /\ IF lwaiters = << >>
       THEN UNCHANGED <<lwaiters, lwoken>>
       ELSE /\ lwaiters' = Tail(lwaiters)
            /\ lwoken' = [lwoken EXCEPT ![Head(lwaiters)] = TRUE]

\* mutant: lguard is dropped on the success path only
LsLock_lguard_drop_on_success(t) ==
    /\ lpc[t] \in {"unlock", "try_fail"}
    /\ IF lpc[t] = "unlock"
       THEN llock_release(t)
       ELSE UNCHANGED <<llocked, lguard, lwaiters, lwoken>>
    /\ lpc' = [lpc EXCEPT ![t] = IF lpc[t] = "unlock" THEN "ret" ELSE "none"]
    /\ UNCHANGED <<base, tkVars, sreaders, swriter, lop, lsheld, lqueued>>

\* drop(lguard) after slock was granted; in try_read / try_write, lguard
\* going out of scope at the end of the `if let` after slock's None
LsLock_lguard_drop(t) ==
    /\ lpc[t] \in {"unlock", "try_fail"}
    /\ llock_release(t)
    /\ lpc' = [lpc EXCEPT ![t] = IF lpc[t] = "unlock" THEN "ret" ELSE "none"]
    /\ UNCHANGED <<base, tkVars, sreaders, swriter, lop, lsheld, lqueued>>

\* the call returns: the guard (LsLockLongGuard, LsLockReadGuard,
\* LsLockWriteGuard) or None
LsLock_return(t) ==
    /\ lpc[t] \in {"ret", "none"}
    /\ lsheld' = [lsheld EXCEPT ![t] =
                    IF lpc[t] = "none" THEN "None"
                    ELSE IF lop[t] = "disk" THEN "Long"
                    ELSE IF lop[t] \in {"read", "try_read", "spin_read"} THEN "Read" ELSE "Write"]
    /\ lpc' = [lpc EXCEPT ![t] = "idle"]
    /\ UNCHANGED <<base, tkVars, llocked, lwaiters, sreaders, swriter, lop, lguard,
                   lqueued, lwoken>>

\* LsLockReadGuard / LsLockWriteGuard dropped: sguard releases slock
LsLockGuard_drop(t) ==
    /\ lpc[t] = "idle"
    /\ lsheld[t] \in {"Read", "Write"}
    /\ IF lsheld[t] = "Read"
       THEN sreaders' = sreaders - 1 /\ UNCHANGED swriter
       ELSE swriter' = FALSE /\ UNCHANGED sreaders
    /\ lsheld' = [lsheld EXCEPT ![t] = "None"]
    /\ UNCHANGED <<base, tkVars, llocked, lwaiters, lpc, lop, lguard, lqueued, lwoken>>

\* LsLockLongGuard dropped, first field: lguard releases llock
LsLockLongGuard_drop_lguard(t) ==
    /\ lpc[t] = "idle"
    /\ lsheld[t] = "Long"
    /\ llock_release(t)
    /\ lsheld' = [lsheld EXCEPT ![t] = "None"]
    /\ lpc' = [lpc EXCEPT ![t] = "ldrop"]
    /\ UNCHANGED <<base, tkVars, sreaders, swriter, lop, lqueued>>

\* LsLockLongGuard dropped, second field: sguard releases slock
LsLockLongGuard_drop_sguard(t) ==
    /\ lpc[t] = "ldrop"
    /\ swriter' = FALSE
    /\ lpc' = [lpc EXCEPT ![t] = "idle"]
    /\ UNCHANGED <<base, tkVars, llocked, lwaiters, sreaders, lop, lguard, lsheld,
                   lqueued, lwoken>>

NextLs ==
    \E t \in Tasks :
        \/ LsLock_llock_poll(t)
        \/ LsLock_llock_try(t)
        \/ LsLock_llock_spin(t)
        \/ LsLock_slock(t)
        \/ LsLock_lguard_drop(t)
        \/ LsLock_return(t)
        \/ LsLockGuard_drop(t)
        \/ LsLockLongGuard_drop_lguard(t)
        \/ LsLockLongGuard_drop_sguard(t)
SpecLs == InitMutex /\ [][NextLs]_vars

\* ---------------------------------------------------------- TicketMutex
\* tickets handed out in one run of the model
MaxTickets == 4

\* TicketMutex::lock, the fetch_add: the caller takes the next ticket
TicketMutex_lock_ticket(t) ==
    /\ tpc[t] = "idle" /\ ~tguard[t]
    /\ next_ticket < MaxTickets
    /\ ticket' = [ticket EXCEPT ![t] = next_ticket]
    /\ next_ticket' = next_ticket + 1
    /\ tpc' = [tpc EXCEPT ![t] = "spin"]
    /\ UNCHANGED <<base, lsVars, next_serving, tguard>>

\* TicketMutex::lock, the spin loop ends when next_serving is the caller's
\* ticket and the guard is built
TicketMutex_lock_enter(t) ==
    /\ tpc[t] = "spin"
    /\ next_serving = ticket[t]
    /\ tguard' = [tguard EXCEPT ![t] = TRUE]
    /\ tpc' = [tpc EXCEPT ![t] = "idle"]
    /\ UNCHANGED <<base, lsVars, next_ticket, next_serving, ticket>>

\* TicketMutex::try_lock, fetch_update loads next_ticket
TicketMutex_try_lock_load(t) ==
    /\ tpc[t] = "idle" /\ ~tguard[t]
    /\ next_ticket < MaxTickets
    /\ ticket' = [ticket EXCEPT ![t] = next_ticket]
    /\ tpc' = [tpc EXCEPT ![t] = "closure"]
    /\ UNCHANGED <<base, lsVars, next_ticket, next_serving, tguard>>

\* with the closure of try_lock answering Some(ticket + 1) whatever
\* next_serving is
TicketMutex_try_lock_closure_always(t) ==
    /\ tpc[t] = "closure"
    /\ tpc' = [tpc EXCEPT ![t] = "cas"]
    /\ UNCHANGED <<base, lsVars, next_ticket, next_serving, ticket, tguard>>

\* the closure of try_lock: Some(ticket + 1) when next_serving is the loaded
\* ticket, else None and fetch_update gives Err without storing
TicketMutex_try_lock_closure(t) ==
    /\ tpc[t] = "closure"
    /\ tpc' = [tpc EXCEPT ![t] = IF next_serving = ticket[t] THEN "cas" ELSE "none"]
    /\ UNCHANGED <<base, lsVars, next_ticket, next_serving, ticket, tguard>>

\* fetch_update's compare-exchange: stores ticket + 1 and the guard is built,
\* or sees another value, takes it as the loaded ticket and runs the closure
\* again
TicketMutex_try_lock_cas(t) ==
    /\ tpc[t] = "cas"
    /\ IF next_ticket = ticket[t]
       THEN /\ next_ticket' = next_ticket + 1
            /\ tguard' = [tguard EXCEPT ![t] = TRUE]
            /\ tpc' = [tpc EXCEPT ![t] = "idle"]
            /\ UNCHANGED ticket
       ELSE /\ ticket' = [ticket EXCEPT ![t] = next_ticket]
            /\ tpc' = [tpc EXCEPT ![t] = "closure"]
            /\ UNCHANGED <<next_ticket, tguard>>
    /\ UNCHANGED <<base, lsVars, next_serving>>

\* try_lock returns None
TicketMutex_try_lock_none(t) ==
    /\ tpc[t] = "none"
    /\ tpc' = [tpc EXCEPT ![t] = "idle"]
    /\ UNCHANGED <<base, lsVars, next_ticket, next_serving, ticket, tguard>>

\* Drop for TicketMutexGuard: next_serving.store(self.ticket + 1)
TicketMutexGuard_drop(t) ==
    /\ tguard[t] /\ tpc[t] = "idle"
    /\ next_serving' = ticket[t] + 1
    /\ tguard' = [tguard EXCEPT ![t] = FALSE]
    /\ UNCHANGED <<base, lsVars, next_ticket, tpc, ticket>>

NextTicket ==
    \E t \in Tasks :
        \/ TicketMutex_lock_ticket(t)
        \/ TicketMutex_lock_enter(t)
        \/ TicketMutex_try_lock_load(t)
        \/ TicketMutex_try_lock_closure(t)
        \/ TicketMutex_try_lock_cas(t)
        \/ TicketMutex_try_lock_none(t)
        \/ TicketMutexGuard_drop(t)
SpecTicket == InitMutex /\ [][NextTicket]_vars

\* -------------------------------------------------------------- fairness
\* the two-tier semaphore alone, no payload access
NextRwSem == \E t \in Tasks : Shared(t) \/ RwSteps(t)

\* the steps a task that is running takes sooner or later: everything except
\* the decision to start a new acquisition
RwProgress(t) ==
    \/ AcquireFuture_poll(t)
    \/ Rw_poll_acquire_try(t)
    \/ Rw_poll_acquire_undo(t)
    \/ poll_acquire_err(t)
    \/ poll_acquire_ok(t)
    \/ FutureRwLock_try_undo(t)
    \/ (pc[t] = "spin" /\ FutureRwLock_try(t))
    \/ Guard_drop(t)
    \/ Rw_release_clear(t)
    \/ release_wake(t)
    \/ release_done(t)

\* SpinMutex::lock succeeding
QueueLock(t) == poll_acquire_lock(t) \/ release_lock(t)

\* Every running task keeps taking steps, the scheduler polls again a task
\* whose waker was invoked, every guard is dropped, and no task is starved at
\* the queue lock (strong fairness: more than the spin lock promises).
FairSpecRw ==
    /\ InitRw
    /\ [][NextRwSem]_vars
    /\ \A t \in Tasks : WF_vars(RwProgress(t)) /\ SF_vars(QueueLock(t))

\* The same fairness with futures that may be dropped while parked: dropping
\* is the caller's choice and is not forced.
FairSpecAbandon ==
    /\ InitRw
    /\ [][NextAbandon]_vars
    /\ \A t \in Tasks : WF_vars(RwProgress(t)) /\ SF_vars(QueueLock(t))

\* the three-tier semaphore: the steps a running task takes sooner or later
RwdProgress(t) ==
    \/ AcquireFuture_poll(t)
    \/ Rwd_poll_acquire_try(t)
    \/ Rwd_poll_acquire_undo(t)
    \/ poll_acquire_err(t)
    \/ poll_acquire_ok(t)
    \/ FutureRwdLock_try_undo(t)
    \/ (pc[t] = "spin" /\ FutureRwdLock_try(t))
    \/ Rwd_release_clear(t)
    \/ release_wake(t)
    \/ release_done(t)
    \/ try_downgrade_read_wake(t)
    \/ Guard_try_upgrade_err(t)

\* SpinMutex::lock succeeding, the three-tier semaphore's callers
RwdQueueLock(t) == poll_acquire_lock(t) \/ release_lock(t) \/ try_downgrade_read_lock(t)

\* Every running task keeps taking steps, no task is starved at the queue
\* lock, every guard is dropped sooner or later, whatever else its owner
\* tries with it meanwhile, and the upgrader's compare_exchange is not made
\* to miss, time after time, the moments at which it can succeed (strong
\* fairness of the three: more than a spin loop promises).
FairSpecRwd ==
    /\ InitRwd
    /\ [][NextRwd]_vars
    /\ \A t \in Tasks :
        /\ WF_vars(RwdProgress(t))
        /\ SF_vars(RwdQueueLock(t))
        /\ SF_vars(Guard_drop(t))
        /\ SF_vars(read_upgrade_spin(t))

\* ===================================================================== claims
WriteHolders == {t \in Tasks : held[t] \in {"Write", "Disk"}}
ReadHolders == {t \in Tasks : held[t] = "Read"}
InQueue(t) == \E i \in DOMAIN waiters : waiters[i].task = t /\ waiters[i].live
\* a failed try_acquire_read between its fetch_add and its fetch_sub
InUndo(t) == pc[t] \in {"pa_undo", "try_undo", "spin_undo"}

\* C1: three-tier lock: in every reachable state at most one task holds a
\* write or disk guard, and while one does no task holds a read guard (a
\* reader that is upgrading stays a reader until its upgrade has succeeded).
C1_RwdMutualExclusion ==
    lockType = "FutureRwdLock" =>
        /\ Cardinality(WriteHolders) <= 1
        /\ WriteHolders # {} => ReadHolders = {}

\* a disk guard obtained while one acquisition is parked and another task is
\* inside a failing try_read
C1_Witness ==
    /\ lockType = "FutureRwdLock"
    /\ \E t, u, v \in Tasks :
        /\ held[t] = "Disk" /\ pc[t] = "hold"
        /\ pc[u] = "pending" /\ InQueue(u)
        /\ pc[v] \in {"try_undo", "spin_undo"}

\* C2: two-tier lock: at most one write guard, no read guard beside a write
\* guard; a reader never loads the writer's sentinel and what it loads is the
\* number of completed increments (LoopCnt after the writer's LoopCnt
\* increments).
C2_RwExclusionAndPayload ==
    lockType = "FutureRwLock" =>
        /\ Cardinality(WriteHolders) <= 1
        /\ WriteHolders # {} => ReadHolders = {}
        /\ \A t \in Tasks :
            (held[t] = "Read" /\ pc[t] = "cs_done") =>
                (tmp[t] >= 0 /\ tmp[t] = Increments)

\* a reader has loaded the payload after all LoopCnt increments were made
C2_Witness ==
    /\ lockType = "FutureRwLock"
    /\ \E t \in Tasks :
        /\ held[t] = "Read" /\ pc[t] = "cs_done"
        /\ tmp[t] = LoopCnt
        /\ Increments = LoopCnt

\* C3: FutureMutex: at most one guard at any time; the counter equals the
\* number of completed increments, and NTasks * LoopCnt once every task has
\* finished its LoopCnt iterations.
C3_MutexCounter ==
    lockType = "FutureMutex" =>
        /\ Cardinality({t \in Tasks : held[t] # "None"}) <= 1
        /\ data = Increments
        /\ (\A t \in Tasks : iters[t] = LoopCnt /\ pc[t] = "idle")
              => data = NTasks * LoopCnt

\* every task has finished its iterations
C3_Witness ==
    /\ lockType = "FutureMutex"
    /\ \A t \in Tasks : iters[t] = LoopCnt /\ pc[t] = "idle"
    /\ data = NTasks * LoopCnt


\* C4: no lost wakeups: under the fairness above, a polled acquisition
\* eventually returns ready.
C4_NoLostWakeup ==
    \A t \in Tasks : (pc[t] = "pa_lock") ~> (pc[t] = "hold")

\* C5: every poll_acquire call finishes in a bounded number of its own steps:
\* it makes one try_acquire_* attempt under the queue lock, returns ready if
\* that succeeds and otherwise returns not-ready with its waiter in the queue
\* and the queue lock released.
C5_PollAcquireBounded ==
    /\ \A t \in Tasks : tries[t] <= 1
    /\ \A t \in Tasks : (pc[t] = "pending" /\ ~woken[t]) => InQueue(t)

\* C6: a release never waits on an acquirer: no reachable state has a guard
\* holder waiting in release_* for the queue lock while the task that owns
\* the queue lock is in a poll_acquire loop that cannot end before that
\* holder's tier is released.
C6_NoReleaseDeadlock ==
    ~ \E h, p \in Tasks :
        /\ pc[h] = "rel_lock"
        /\ pc[p] \in {"pa_try", "pa_undo"}
        /\ lockType = "FutureRwdLock"
        /\ \/ held[h] = "Write"
           \/ held[h] = "Read" /\ req[p] \in {"Write", "Disk"}

\* C7: whenever every acquired guard has been released and no operation is
\* in flight (every task is idle or parked), the permit word is 0.
C7_PermitAllClear ==
    (\A t \in Tasks : pc[t] \in {"idle", "pending"} /\ held[t] = "None")
        => permit = 0

\* all guards released again, after a release woke a parked acquisition of a
\* task that has also seen a failed attempt undo its reader step
C7_Witness ==
    /\ \A t \in Tasks : pc[t] \in {"idle", "pending"} /\ held[t] = "None"
    /\ \E t \in Tasks : pc[t] = "pending" /\ woken[t] /\ queued[t] /\ ~InQueue(t)
    /\ permit = 0

\* C8: the writer and the disk bit are never both set, and with either set
\* the reader count is nonzero only during an upgrade handoff (after
\* read_upgrade reserved its bit, before its final CAS).
C8_PermitWord ==
    lockType = "FutureRwdLock" =>
        /\ ~(BitSet(permit, WRITER) /\ BitSet(permit, DISK))
        /\ ((BitSet(permit, WRITER) \/ BitSet(permit, DISK)) /\ permit \div READER # 0)
              => \E t \in Tasks : pc[t] = "up_spin"

\* a disk guard is held, no upgrade is in progress, and the word carries the
\* reader step of a try_read that has failed and not yet undone it
C8_Witness ==
    /\ lockType = "FutureRwdLock"
    /\ \E t, v \in Tasks :
        /\ held[t] = "Disk" /\ pc[t] = "hold"
        /\ pc[v] \in {"try_undo", "spin_undo"}
    /\ \A t \in Tasks : pc[t] # "up_spin"
    /\ permit = READER + DISK

\* C9: reader_count() equals the number of read guards acquired and not yet
\* released, at every observation point.
C9_ReaderCount == reader_count = Cardinality(ReadHolders)

\* a writer holds, no read guard exists, and reader_count() is 1 because a
\* failing read attempt has not yet undone its step
C9_Witness ==
    /\ \E w, v \in Tasks : held[w] = "Write" /\ pc[w] = "hold" /\ InUndo(v)
    /\ ReadHolders = {}
    /\ reader_count = 1

\* C10: try_upgrade_write / try_upgrade_disk called while another read guard
\* is outstanding returns Err at once: no task is inside read_upgrade's wait
\* loop while another task holds a read guard.
C10_UpgradeFailsFast ==
    \A t \in Tasks :
        pc[t] = "up_spin" => \A u \in Tasks \ {t} : held[u] # "Read"

\* an upgrade or downgrade attempt of task t fails in this step
FailedTransition(t) ==
    pc'[t] # pc[t] /\ pc'[t] \in {"up_err", "panicked"}

\* C11: a failing upgrade or downgrade attempt leaves the permit word, the
\* waiter queue, every wake handle and the nesting depth as they were, and
\* the caller keeps the tier it held: after a failed try_upgrade_* that is a
\* read guard whose reader step is still in the word.
C11_FailedTransitionNoEffect ==
    /\ [][\A t \in Tasks :
            FailedTransition(t) =>
                /\ permit' = permit
                /\ waiters' = waiters
                /\ woken' = woken
                /\ nest' = nest
                /\ held'[t] = held[t] /\ held[t] # "None"]_vars
    /\ [](\A t \in Tasks :
            pc[t] = "up_err" =>
                /\ held[t] = "Read"
                /\ nest[t] = 1
                /\ permit \div READER >= Cardinality(ReadHolders))

\* try_upgrade_disk has failed against another reader's reserved upgrade
C11_Witness ==
    \E t, u \in Tasks :
        /\ pc[t] = "up_err" /\ held[t] = "Read"
        /\ pc[u] = "up_spin" /\ req[u] = "Write"
        /\ permit = 2 * READER + WRITER

\* the permit word that encodes a single guard of tier r
Encoding(r) == IF r = "Read" THEN READER ELSE TierBit(r)

\* task t, owner of a write or disk guard, calls downgrade_read,
\* downgrade_write or upgrade_disk in this step
TransitionCall(t) ==
    /\ pc[t] = "hold"
    /\ held[t] \in {"Write", "Disk"}
    /\ held'[t] # held[t] \/ pc'[t] = "panicked"

\* C12: downgrade_read, downgrade_write and upgrade_disk take the permit word
\* from the source encoding to the target encoding in one atomic step; the
\* word is never all-clear while a guard is owned; and a try_acquire_read
\* made right after a downgrade to read, no upgrade being reserved, succeeds.
C12_TransitionInOneStep ==
    /\ [][\A t \in Tasks :
            TransitionCall(t) =>
                /\ pc'[t] # "panicked"
                /\ held'[t] \in {"Read", "Write", "Disk"}
                /\ permit = Encoding(held[t])
                /\ permit' = Encoding(held'[t])]_vars
    /\ [](\A t \in Tasks : held[t] # "None" => permit # 0)
    /\ [][\A t, u \in Tasks :
            (/\ pc[t] \in {"dg_lock", "dg_wake"}
             /\ \A v \in Tasks : pc[v] # "up_spin"
             /\ pc[u] \in {"idle", "spin", "pa_try"}
             /\ permit' = permit + READER)
                => held'[u] = "Read" \/ pc'[u] = pc[u]]_vars

\* a disk guard's downgrade_read has panicked: its compare_exchange(DISK,
\* READER) met the reader step of another task's failing try_read
C12_Witness ==
    \E t, u \in Tasks :
        /\ pc[t] = "panicked" /\ held[t] = "Disk" /\ req[t] = "Read"
        /\ BitSet(permit, DISK)

\* the tasks that have a waiter of tier read / of another tier in the queue
QueuedReaders == TasksOf(SelectSeq(waiters, IsRead))
QueuedOthers == TasksOf(SelectSeq(waiters, NotRead))

\* task t, owner of a write or disk guard, calls downgrade_read in this step
DowngradeReadCall(t) ==
    /\ pc[t] = "hold"
    /\ held[t] \in {"Write", "Disk"}
    /\ pc'[t] = "dg_lock" \/ (pc'[t] = "panicked" /\ req'[t] = "Read")

\* C13: with read acquisitions parked, the holder's downgrade_read goes on to
\* its wake step; that step removes and wakes every queued reader and leaves
\* the writer / disk waiters queued, in order, unwoken; and a reader polled
\* while a read guard is held (no upgrade reserved) gets its read step
\* without any release.
C13_DowngradeWakesReaders ==
    /\ [][\A t \in Tasks :
            (DowngradeReadCall(t) /\ QueuedReaders # {}) => pc'[t] = "dg_lock"]_vars
    /\ [][\A t \in Tasks :
            (pc[t] = "dg_wake" /\ pc'[t] # "dg_wake") =>
                /\ \A i \in DOMAIN waiters' : NotRead(waiters'[i])
                /\ \A u \in QueuedReaders : woken'[u]
                /\ waiters' = SelectSeq(waiters, NotRead)
                /\ \A u \in QueuedOthers : woken'[u] = woken[u]]_vars
    /\ [][\A u \in Tasks :
            (/\ pc[u] = "pa_try" /\ req[u] = "Read" /\ pc'[u] # pc[u]
             /\ ReadHolders # {}
             /\ \A v \in Tasks : pc[v] # "up_spin")
                => held'[u] = "Read"]_vars

\* a disk holder's downgrade_read has panicked while a read acquisition is
\* parked in the queue: that reader is not woken
C13_Witness ==
    \E t, u \in Tasks :
        /\ pc[t] = "panicked" /\ held[t] = "Disk" /\ req[t] = "Read"
        /\ pc[u] = "pending" /\ req[u] = "Read" /\ InQueue(u) /\ ~woken[u]

\* a release's wake_next happens in this step
WakeNextStep == \E t \in Tasks : pc[t] = "rel_wake" /\ pc'[t] # "rel_wake"

\* the position of the first writer / disk waiter (Len + 1 if there is none)
FirstOther(ws) ==
    IF \E i \in DOMAIN ws : NotRead(ws[i])
    THEN CHOOSE i \in DOMAIN ws : NotRead(ws[i]) /\ \A j \in 1..(i - 1) : IsRead(ws[j])
    ELSE Len(ws) + 1

NumOthers(ws) == Len(SelectSeq(ws, NotRead))

\* C15: writer and disk waiters are woken one at a time.  A wake_next whose
\* head is a writer or disk waiter removes exactly the head and wakes exactly
\* its task; and no step at all (release or downgrade) removes more than one
\* writer / disk waiter or wakes a task other than the head's and the queued
\* readers'; wake_reader removes no writer / disk waiter.
C15_OneWriterAtATime ==
    /\ [][(WakeNextStep /\ waiters # << >> /\ NotRead(Head(waiters))) =>
            /\ waiters' = Tail(waiters)
            /\ \A u \in Tasks : woken'[u] = (woken[u] \/ u = Head(waiters).task)]_vars
    /\ [][/\ NumOthers(waiters) - NumOthers(waiters') <= 1
          /\ \A u \in Tasks :
                (woken'[u] /\ ~woken[u]) =>
                    /\ waiters # << >>
                    /\ u \in QueuedReaders \/ u = Head(waiters).task
          /\ (\E t \in Tasks : pc[t] = "dg_wake" /\ pc'[t] # "dg_wake") =>
                /\ NumOthers(waiters') = NumOthers(waiters)
                /\ \A u \in Tasks : (woken'[u] /\ ~woken[u]) => u \in QueuedReaders]_vars

\* the lock is free, one parked writer / disk acquisition has been woken and
\* removed, and another one is still parked in the queue, not woken
C15_Witness ==
    /\ permit = 0
    /\ \A t \in Tasks : pc[t] \in {"idle", "pending"}
    /\ \E u, v \in Tasks :
        /\ u # v
        /\ pc[u] = "pending" /\ req[u] # "Read" /\ woken[u] /\ queued[u] /\ ~InQueue(u)
        /\ pc[v] = "pending" /\ req[v] # "Read" /\ ~woken[v] /\ InQueue(v)

\* the number of nodes of task u in a queue (abandoned ones included)
NodesOf(u, ws) == Len(SelectSeq(ws, LAMBDA w : w.task = u))

\* a wake_next or wake_reader happens in this step
WakeStep ==
    \E t \in Tasks : pc[t] \in {"rel_wake", "dg_wake"} /\ pc'[t] # pc[t]

\* C16: the node of one acquisition attempt is pushed at most once (only by
\* a failed poll that finds `queued` unset, and that sets it), so the queue
\* never holds the node of a running attempt twice; and nodes leave the
\* queue only in a wake_next / wake_reader step, which wakes their task.
C16_QueuedOnce ==
    /\ [](\A i, j \in DOMAIN waiters :
            (i # j /\ waiters[i].live /\ waiters[j].live) =>
                waiters[i].task # waiters[j].task)
    /\ [](\A t \in Tasks : InQueue(t) => queued[t])
    /\ [][\A u \in Tasks :
            NodesOf(u, waiters') > NodesOf(u, waiters) =>
                /\ pc[u] = "pa_err" /\ ~queued[u] /\ queued'[u]
                /\ waiters' = Append(waiters, [task |-> u, req |-> req[u], live |-> TRUE])]_vars
    /\ [][\A u \in Tasks :
            NodesOf(u, waiters') < NodesOf(u, waiters) =>
                WakeStep /\ woken'[u]]_vars

\* a poll has failed again while the attempt's node is already in the queue
C16_Witness ==
    \E t \in Tasks :
        /\ pc[t] = "pa_err" /\ queued[t] /\ InQueue(t)
        /\ NodesOf(t, SelectSeq(waiters, LAMBDA w : w.live)) = 1

\* C17: waking hands over no tier.  A wake_next / wake_reader step leaves
\* the permit word and every task's tier as they are; a parked or woken
\* acquisition holds nothing; and a task comes to hold a tier only in a step
\* of its own try_acquire_*, taken against the permit word of that moment
\* (no writer / disk bit for a reader, all-clear for a writer / disk holder).
C17_WakeHandsOverNothing ==
    /\ [][WakeStep => (permit' = permit /\ held' = held)]_vars
    /\ [](\A u \in Tasks : pc[u] \in {"pending", "pa_lock", "pa_err"} => held[u] = "None")
    /\ [][\A u \in Tasks :
            (held[u] = "None" /\ held'[u] # "None") =>
                /\ pc[u] \in {"pa_try", "idle", "spin"}
                /\ pc'[u] \in {"pa_ok", "hold"}
                /\ IF held'[u] = "Read" THEN permit % READER = 0 ELSE permit = 0
                /\ permit' # permit]_vars

\* a woken acquisition (its node already removed by the wake step) has
\* retried and failed, because another task took the lock in between
C17_Witness ==
    \E u, v \in Tasks :
        /\ u # v
        /\ pc[u] = "pa_err" /\ queued[u] /\ ~InQueue(u) /\ held[u] = "None"
        /\ waiters = << >>
        /\ held[v] # "None" /\ pc[v] = "hold"

\* task t is parked with its node queued behind the node of a dropped future
BehindAbandoned(t) ==
    /\ pc[t] = "pending"
    /\ \E i, j \in DOMAIN waiters :
        /\ i < j
        /\ ~waiters[i].live
        /\ waiters[j].task = t /\ waiters[j].live

TryPcs == {"idle", "spin", "try_undo", "spin_undo"}

\* task t takes a step of a try_* / spin_* call
TryStep(t) ==
    /\ pc[t] \in TryPcs
    /\ pc'[t] \in TryPcs \cup {"hold"}
    /\ pc'[t] # pc[t]

\* C19: a failed try_acquire_* leaves nothing behind.  The reader steps in
\* the permit word are those of the read guards and of the failed attempts
\* that have not yet returned; a writer / disk bit belongs to a guard or to a
\* reserved upgrade; a caller that is back from a failed attempt holds
\* nothing, is at nesting depth 0 and has no waiter queued; and no step of a
\* try / spin call touches the queue lock, the queue or a wake handle.
C19_FailedTryLeavesNothing ==
    /\ [](reader_count = Cardinality(ReadHolders \cup {t \in Tasks : InUndo(t)}))
    /\ [](permit % READER # 0 =>
              (WriteHolders # {} \/ \E t \in Tasks : pc[t] = "up_spin"))
    /\ [](\A t \in Tasks :
            pc[t] \in {"idle", "spin"} =>
                (held[t] = "None" /\ nest[t] = 0 /\ ~InQueue(t)))
    /\ [][\A t \in Tasks :
            TryStep(t) =>
                /\ waiters' = waiters /\ queued' = queued
                /\ locked' = locked /\ woken' = woken
                /\ pc'[t] \in {"idle", "spin"} =>
                      /\ permit' = (IF InUndo(t) THEN permit - READER ELSE permit)
                      /\ held' = held
                      /\ nest'[t] = 0]_vars

\* a spin_read attempt has failed against a held write / disk guard and has
\* returned: the word carries the holder's bit only
C19_Witness ==
    \E t, h \in Tasks :
        /\ pc[t] = "spin" /\ req[t] = "Read" /\ nest[t] = 0
        /\ held[h] \in {"Write", "Disk"} /\ pc[h] = "hold"
        /\ permit < READER
        /\ waiters = << >>

\* task t owns the queue lock (the SpinMutex guard's push_off is open)
HasQueueLock(t) ==
    pc[t] \in {"pa_try", "pa_undo", "pa_err", "pa_ok", "rel_clear", "rel_wake",
               "rel_done", "dg_wake"}

\* task t is inside release_*, past the permit update, before its pop_off
ReleasePopDue(t) == pc[t] \in {"rel_wake", "rel_done"}

Bit(b) == IF b THEN 1 ELSE 0

\* C20: push_off / pop_off balance.  A task's push_off count minus its
\* pop_off count is never negative; it is 1 for a guard it holds, plus 1
\* while it owns the queue lock, plus 1 inside a failing try_acquire_read
\* before the undo, plus 1 inside release_* before the pop_off; so with no
\* call in progress it is the number of guards the task holds, and summed
\* over the tasks the number of guards held.  Upgrade and downgrade steps
\* change it only by the queue-lock pair of try_downgrade_read.
C20_NestBalance ==
    /\ [](\A t \in Tasks :
            /\ nest[t] >= 0
            /\ nest[t] = Bit(held[t] # "None") + Bit(HasQueueLock(t))
                            + Bit(InUndo(t)) + Bit(ReleasePopDue(t)))
    /\ []((\A t \in Tasks : pc[t] \in {"idle", "pending", "hold", "spin"}) =>
            \A t \in Tasks : nest[t] = Bit(held[t] # "None"))
    /\ [][\A t \in Tasks :
            (pc[t] \in {"hold", "up_spin", "up_err"} /\ pc'[t] # "rel_lock") =>
                nest'[t] = nest[t]]_vars

\* no call is in progress: two read guards are held (depth 1 each) and a
\* third task is parked after a failed acquisition (depth 0)
C20_Witness ==
    \E t, u, v \in Tasks :
        /\ t # u
        /\ held[t] = "Read" /\ pc[t] = "hold" /\ nest[t] = 1
        /\ held[u] = "Read" /\ pc[u] = "hold" /\ nest[u] = 1
        /\ pc[v] = "pending" /\ queued[v] /\ nest[v] = 0

\* C21: the interrupt-nesting counter of one execution context.  The
\* recorded state is written only by the push_off that leaves depth 0 and
\* interrupts are restored only by the pop_off that reaches depth 0;
\* interrupts are masked at every depth >= 1; the depth is never negative;
\* and when N nested push_off calls have been matched by N pop_off calls
\* the depth is 0, interrupts are as they were before the first push_off and
\* exactly one restore has been made.
C21_NestCounter ==
    /\ [](strategy = "NoIrqNest" =>
            \A c \in Contexts :
                /\ depth[c] >= 0
                /\ depth[c] >= 1 => (~enabled[c] /\ restores[c] = 0)
                /\ (depth[c] = 0 /\ peak[c] >= 1) =>
                      (enabled[c] = pre[c] /\ restores[c] = 1))
    /\ [][\A c \in Contexts :
            /\ saved'[c] # saved[c] => (depth[c] = 0 /\ depth'[c] = 1)
            /\ restores'[c] > restores[c] => (depth[c] = 1 /\ depth'[c] = 0)
            /\ (enabled'[c] /\ ~enabled[c]) => (depth[c] = 1 /\ depth'[c] = 0)]_vars

\* MaxDepth nested push_off calls, made with interrupts enabled, have been
\* matched by MaxDepth pop_off calls: interrupts are enabled again
C21_Witness ==
    /\ strategy = "NoIrqNest"
    /\ \E c \in Contexts :
        /\ depth[c] = 0 /\ peak[c] = MaxDepth
        /\ pre[c] /\ enabled[c] /\ restores[c] = 1 /\ ~fault[c]

\* the tasks that own a guard of channel ch
ChannelHolders(ch) == {t \in Tasks : ch \in mheld[t]}

\* C22: the channels of the dual-channel lock do not interact.  At most one
\* guard per channel exists and the channel's flag is set exactly while one
\* does; a step changes the flag, the guards and the queue of one channel at
\* most, the channel of the call; a guard of a channel is obtained only on
\* that channel's flag being clear, and try_lock returns None only on that
\* channel's flag being set, whatever the other channel's state.
C22_ChannelsIndependent ==
    /\ [](\A ch \in Channels :
            /\ Cardinality(ChannelHolders(ch)) <= 1
            /\ chLocked[ch] <=> ChannelHolders(ch) # {})
    /\ [][\A ch, other \in Channels :
            (ch # other /\
             (chLocked'[ch] # chLocked[ch] \/ chWaiters'[ch] # chWaiters[ch]
                \/ ChannelHolders(ch)' # ChannelHolders(ch))) =>
                /\ chLocked'[other] = chLocked[other]
                /\ chWaiters'[other] = chWaiters[other]
                /\ ChannelHolders(other)' = ChannelHolders(other)]_vars
    /\ [][\A t \in Tasks, ch \in Channels :
            /\ (ch \in mheld'[t] /\ ch \notin mheld[t]) =>
                  (~chLocked[ch] /\ chLocked'[ch])
            /\ (mpc'[t] = "none" /\ mpc[t] = "idle" /\ mch'[t] = ch) => chLocked[ch]]_vars

\* while one task owns the Normal guard, a try_lock of the Interrupt channel
\* has succeeded and a try_lock of the Normal channel has returned None
C22_Witness ==
    \E t, u, v \in Tasks :
        /\ "Normal" \in mheld[t]
        /\ "Interrupt" \in mheld[u]
        /\ mpc[v] = "none" /\ mch[v] = "Normal"

\* task t is inside poll_acquire
InPollAcquire(t) == pc[t] \in {"pa_lock", "pa_try", "pa_undo", "pa_err", "pa_ok"}

\* C23: the wake handle of a waiter is stored by the first poll of its
\* acquisition and not changed by a later poll of it; poll_acquire runs only
\* for a poll whose Context's waker is equivalent to the stored one; a poll
\* with another waker panics in the assertion, having changed neither the
\* permit word nor the queue nor the queue lock nor the waiter.
C23_WakerSetOnce ==
    /\ [][\A t \in Tasks : wakerOf'[t] # wakerOf[t] => pc[t] = "idle"]_vars
    /\ [](\A t \in Tasks :
            /\ InPollAcquire(t) => (wakerOf[t] # 0 /\ will_wake(cx[t], wakerOf[t]))
            /\ pc[t] = "pending" => wakerOf[t] # 0
            /\ pc[t] = "panicked" => ~will_wake(cx[t], wakerOf[t]))
    /\ [][\A t \in Tasks :
            (pc[t] = "pending" /\ pc'[t] # "pending") =>
                /\ pc'[t] = (IF will_wake(cx'[t], wakerOf[t]) THEN "pa_lock" ELSE "panicked")
                /\ permit' = permit /\ waiters' = waiters /\ locked' = locked
                /\ queued' = queued /\ nest' = nest]_vars

\* an acquisition that was parked (its waiter had been enqueued) and woken
\* was polled with a waker that is not the stored one and has panicked
C23_Witness ==
    \E t \in Tasks :
        /\ pc[t] = "panicked"
        /\ wakerOf[t] # 0 /\ cx[t] # 0 /\ cx[t] # wakerOf[t]
        /\ queued[t]

\* task t is inside release_*
InRelease(t) == pc[t] \in {"rel_lock", "rel_clear", "rel_wake", "rel_done"}

\* C24: a leaked guard is detached from release-on-drop.  The call of leak
\* changes neither the permit word nor the queue nor a wake handle and
\* lowers the nesting depth by one; afterwards the release of that guard
\* never runs: the word keeps its reader step / writer bit / disk bit and
\* the depth stays as the leak left it.
C24_LeakDetaches ==
    /\ [][\A t \in Tasks :
            (leaked'[t] /\ ~leaked[t]) =>
                /\ permit' = permit /\ waiters' = waiters /\ woken' = woken
                /\ nest'[t] = nest[t] - 1]_vars
    /\ [](\A t \in Tasks :
            leaked[t] =>
                /\ ~InRelease(t)
                /\ held[t] # "None"
                /\ nest[t] = 0
                /\ IF held[t] = "Read" THEN reader_count >= 1 ELSE permit % READER # 0)

\* a leaked read guard has been released all the same: the word is
\* all-clear, the release's wake_next has woken a parked writer, and the task
\* has made one pop_off more than push_off
C24_Witness ==
    \E t, u \in Tasks :
        /\ leaked[t] /\ pc[t] = "idle" /\ held[t] = "None" /\ nest[t] = -1
        /\ permit = 0
        /\ pc[u] = "pending" /\ woken[u] /\ ~InQueue(u)


\* C25: called by the current holder, WriteGuard::downgrade_read,
\* WriteGuard::upgrade_disk, DiskGuard::downgrade_read and
\* DiskGuard::downgrade_write always succeed: whatever the other tasks
\* attempt, no such call ends in the panic of its unwrap, which would leave
\* the permit set with the guard already forgotten.
C25_TransitionsNeverFail ==
    \A t \in Tasks : ~(pc[t] = "panicked" /\ held[t] \in {"Write", "Disk"})

\* a write holder's upgrade_disk has panicked on the reader step of another
\* task's failing try_read; that step has been undone since, every other task
\* is at rest, and the writer bit stays set with no guard left to clear it
C25_Witness ==
    \E t \in Tasks :
        /\ pc[t] = "panicked" /\ held[t] = "Write" /\ req[t] = "Disk"
        /\ permit = WRITER
        /\ \A u \in Tasks \ {t} : pc[u] \in {"idle", "pending"} /\ held[u] = "None"


\* the tasks that have reserved an upgrade and spin for the last reader
Upgraders == {t \in Tasks : pc[t] = "up_spin"}

\* neither the writer nor the disk bit is set in word v
NoTierBit(v) == ~BitSet(v, WRITER) /\ ~BitSet(v, DISK)

\* C26: upgrade reservation: from read_upgrade's reserving step until the
\* upgraded tier is given up the target bit stays set, and while it is set
\* no read, write or disk acquire succeeds and no other reader reserves or
\* completes an upgrade; at most one reader has a reservation; and the
\* upgrader gets the target tier only by the step that finds exactly one
\* reader step, its own, next to the target bit.
C26_UpgradeReservation ==
    /\ [](\A t \in Upgraders :
            /\ BitSet(permit, TierBit(req[t]))
            /\ held[t] = "Read"
            /\ reader_count >= 1)
    /\ [](Cardinality(Upgraders) <= 1)
    /\ [][\A u \in Tasks :
            (held[u] = "None" /\ held'[u] # "None") => NoTierBit(permit)]_vars
    /\ [][\A u \in Tasks :
            (/\ held[u] = "Read"
             /\ u \notin Upgraders
             /\ u \in Upgraders' \/ held'[u] \in {"Write", "Disk"})
                => NoTierBit(permit)]_vars
    /\ [][\A t \in Upgraders :
            held'[t] # held[t] =>
                /\ permit = READER + TierBit(req[t])
                /\ ReadHolders = {t}
                /\ held'[t] = req[t]
                /\ permit' = TierBit(req[t])]_vars

\* a reader has reserved its upgrade and waits for a second reader to leave;
\* the second reader's own upgrade attempt has failed, and a third task's
\* try_read has failed on the reserved bit and is about to undo its step
C26_Witness ==
    \E t, u, v \in Tasks :
        /\ t \in Upgraders
        /\ held[u] = "Read" /\ pc[u] = "up_err"
        /\ held[v] = "None" /\ pc[v] = "try_undo"
        /\ permit = 3 * READER + TierBit(req[t])


\* C27: a read_upgrade that has reserved its target bit returns success
\* eventually, under the fairness above (every other reader drops its guard,
\* and its release_read gets to run while the upgrader spins); and a
\* read_upgrade whose first step finds the writer or disk bit set fails in
\* that step, the word untouched, without spinning.
C27_UpgradeTerminates ==
    /\ \A t \in Tasks :
        (pc[t] = "up_spin") ~> (pc[t] = "hold" /\ held[t] \in {"Write", "Disk"})
    /\ [][\A t \in Tasks :
            (/\ pc[t] = "hold" /\ held[t] = "Read"
             /\ pc'[t] \in {"up_spin", "up_err"}
             /\ ~NoTierBit(permit))
                => pc'[t] = "up_err" /\ permit' = permit]_vars

\* the upgrader spins for the last other reader to leave; that reader is in
\* release_read waiting for the queue lock, which is owned by a third task's
\* poll_acquire, itself looping until the reserved bit goes away
C27_Witness ==
    \E t, u, v \in Tasks :
        /\ pc[t] = "up_spin"
        /\ pc[u] = "rel_lock" /\ held[u] = "Read"
        /\ pc[v] = "pa_try" /\ locked /\ tries[v] >= 1
        /\ permit = 2 * READER + TierBit(req[t])


\* C28: in both semaphores every live acquisition whose last poll returned
\* not-ready and whose waker has not been invoked since is in the waiter
\* queue; in particular the poll of a waiter that had been woken and removed
\* and fails its retry leaves the waiter in the queue when it returns.
C28_ParkedIsQueued ==
    /\ [](\A t \in Tasks : (pc[t] = "pending" /\ ~woken[t]) => InQueue(t))
    /\ [][\A t \in Tasks :
            (pc[t] = "pa_err" /\ pc'[t] = "pending") =>
                \E i \in DOMAIN waiters' : waiters'[i].task = t /\ waiters'[i].live]_vars

\* a waiter that was woken and removed has failed its retry against a
\* writer: its poll has returned not-ready, its `queued` flag is still set,
\* it is not in the queue and nobody has its waker
C28_Witness ==
    \E t, u \in Tasks :
        /\ pc[t] = "pending" /\ ~woken[t] /\ queued[t] /\ ~InQueue(t)
        /\ pc[u] = "hold" /\ held[u] = "Write"
        /\ waiters = <<>>


\* C29: a free semaphore has no un-notified parked waiter: whenever the
\* permit word is all-clear and no acquire, release, wake or undo step of
\* any task is in progress (every task is idle or parked), every live waiter
\* in the queue has been woken since it was enqueued.
C29_FreeMeansNoParkedWaiter ==
    (/\ permit = 0
     /\ \A t \in Tasks : pc[t] \in {"idle", "pending"})
        => \A t \in Tasks : InQueue(t) => woken[t]

\* the lock is free and every task at rest, yet a write acquisition sits in
\* the queue un-woken: it was enqueued after failing against the reader step
\* of a try_read that has since been undone
C29_Witness ==
    /\ permit = 0
    /\ \A t \in Tasks : pc[t] \in {"idle", "pending"} /\ held[t] = "None"
    /\ \E t \in Tasks :
        /\ pc[t] = "pending" /\ req[t] = "Write" /\ InQueue(t) /\ ~woken[t]
        /\ \A u \in Tasks \ {t} : pc[u] = "idle"


\* one reader step in the permit word of the lock at hand
ReaderStep == IF lockType = "FutureRwdLock" THEN READER ELSE RW_READER

\* the bit that a write / disk guard of tier r owns in the permit word
HeldBit(r) == IF lockType = "FutureRwdLock" THEN TierBit(r) ELSE RW_WRITER

\* release_* of task t updates the permit word in this step
ClearStep(t) == pc[t] = "rel_clear" /\ pc'[t] # "rel_clear"

C31_FailsOnlyUnderContention ==
    [][\A t \in Tasks :
        (\/ /\ pc[t] = "idle" /\ pc'[t] = "spin" /\ req'[t] \in {"Write", "Disk"}
         \/ /\ pc[t] = "pa_try" /\ req[t] \in {"Write", "Disk"}
            /\ pc'[t] = "pa_err" \/ (pc'[t] = "pa_try" /\ tries'[t] # tries[t])) =>
            \/ \E u \in Tasks : held[u] # "None"
            \/ \E u \in Tasks : pc[u] = "up_spin"]_vars

\* a polled write acquisition has failed although nobody holds a guard: the
\* word held nothing but the reader step of another task's try_read, which
\* had itself failed against a writer that has released since
C31_Witness ==
    \E t, u \in Tasks :
        /\ pc[t] = "pa_err" /\ req[t] = "Write"
        /\ pc[u] = "try_undo"
        /\ \A v \in Tasks : held[v] = "None"
        /\ permit = ReaderStep


\* C32: the waiter queue is FIFO across tiers: a failed poll appends its
\* waiter at the tail, under the queue lock, and no other step adds a node
\* or reorders the queue; each release's wake step removes and wakes the
\* head; and a writer / disk waiter is woken only with no writer / disk
\* waiter in front of it, that is, enqueued before it.
C32_QueueIsFifo ==
    /\ [][\A t \in Tasks :
            (pc[t] = "pa_err" /\ pc'[t] = "pending" /\ waiters' # waiters) =>
                /\ waiters' = Append(waiters, [task |-> t, req |-> req[t], live |-> TRUE])
                /\ locked]_vars
    /\ [][LET \* the owners of the queue's nodes, front to back
               TaskSeq(ws) == [i \in DOMAIN ws |-> ws[i].task]
               \* the nodes of ws that are still in the queue after this step
               Kept(ws) == SelectSeq(ws, LAMBDA w :
                               \E i \in DOMAIN waiters' : waiters'[i].task = w.task)
           IN  (\A t \in Tasks : pc[t] # "pa_err") =>
                   /\ Len(waiters') <= Len(waiters)
                   /\ TaskSeq(waiters') = TaskSeq(Kept(waiters))]_vars
    /\ [][(WakeNextStep /\ waiters # << >>) =>
                /\ woken'[Head(waiters).task]
                /\ \A i \in DOMAIN waiters' : waiters'[i].task # Head(waiters).task]_vars
    /\ [][\A i \in DOMAIN waiters :
            (/\ NotRead(waiters[i])
             /\ woken'[waiters[i].task] /\ ~woken[waiters[i].task])
                => \A j \in 1..(i - 1) : IsRead(waiters[j])]_vars

\* two write acquisitions were parked one after the other behind a disk
\* holder; the release has woken the one enqueued first, which is out of the
\* queue, and the second is now the head, un-woken
C32_Witness ==
    \E t, u \in Tasks :
        /\ t # u
        /\ pc[t] = "pending" /\ req[t] = "Write" /\ woken[t] /\ ~InQueue(t)
        /\ pc[u] = "pending" /\ req[u] = "Write" /\ ~woken[u]
        /\ waiters = <<[task |-> u, req |-> "Write", live |-> TRUE]>>


\* C33: every waiter in a waiter queue has a registered wake handle: the
\* handle is stored before poll_acquire can push the node, it is written
\* only while the node is not in the queue, and every Waiter::wake call finds
\* it set, so the panic of Waiter::wake is never reached.
C33_QueuedWaiterHasWaker ==
    /\ [](\A t \in Tasks : InQueue(t) => waker[t])
    /\ [][\A t \in Tasks :
            (pc[t] = "pa_err" /\ waiters' # waiters) => waker[t]]_vars
    /\ [][\A t \in Tasks :
            waker'[t] # waker[t] => ~InQueue(t) /\ ~InQueue(t)']_vars
    /\ [][\A t \in Tasks :
            (WakeStep /\ woken'[t] /\ ~woken[t]) => waker[t]]_vars

\* a parked acquisition has been woken through its stored handle by the
\* release of a guard, and another one, its handle stored, is still queued
C33_Witness ==
    \E t, u \in Tasks :
        /\ pc[t] = "pending" /\ woken[t] /\ waker[t] /\ ~InQueue(t)
        /\ pc[u] = "pending" /\ ~woken[u] /\ waker[u] /\ InQueue(u)


\* C34: in the three-tier poll_acquire the loop is left for the enqueue /
\* not-ready path only by a failed attempt that observed the permit word
\* equal to exactly DISK; after any other failing word the attempt is
\* repeated, the queue lock still held and the queue untouched; and a poll
\* returns not-ready only by that path.
C34_EnqueueOnlyOnDisk ==
    /\ [][\A t \in Tasks :
            (pc'[t] = "pa_err" /\ pc[t] # "pa_err") =>
                \/ pc[t] = "pa_try" /\ req[t] \in {"Write", "Disk"} /\ permit = DISK
                \/ pc[t] = "pa_undo" /\ req[t] = "Read" /\ value[t] = DISK]_vars
    /\ [][\A t \in Tasks :
            (/\ pc[t] = "pa_try" /\ req[t] \in {"Write", "Disk"}
             /\ permit \notin {0, DISK})
                => pc'[t] = "pa_try" /\ locked' /\ waiters' = waiters]_vars
    /\ [][\A t \in Tasks :
            (pc[t] = "pa_undo" /\ value[t] # DISK)
                => pc'[t] \in {"pa_undo", "pa_try"} /\ locked' /\ waiters' = waiters]_vars
    /\ [][\A t \in Tasks :
            (pc'[t] = "pending" /\ pc[t] # "pending") => pc[t] = "pa_err"]_vars
    /\ [](\A t \in Tasks : pc[t] \in {"pa_try", "pa_undo", "pa_err"} => locked)

\* one acquisition is parked in the queue, having met the disk bit alone;
\* the disk holder has downgraded to write since, and a second write
\* acquisition repeats its attempt against the writer bit, owning the queue
\* lock
C34_Witness ==
    \E t, u, v \in Tasks :
        /\ pc[t] = "pending" /\ InQueue(t)
        /\ pc[u] = "hold" /\ held[u] = "Write"
        /\ pc[v] = "pa_try" /\ req[v] = "Write" /\ tries[v] = MaxTries /\ locked
        /\ permit = WRITER


\* C35: formatting a FutureMCSLock with Display is an observation only: no
\* step of it changes a channel's permit word or the caller's nesting depth,
\* so a channel's writer bit is set only while a guard of that channel
\* exists and a try_lock on a channel without a guard succeeds.
C35_FmtObservesOnly ==
    /\ [][\A t \in Tasks :
            (\/ mpc[t] = "idle" /\ mpc'[t] = "fmt"
             \/ mpc[t] = "fmt" /\ mpc'[t] = "idle") =>
                chLocked' = chLocked /\ nest' = nest]_vars
    /\ [](\A ch \in Channels : chLocked[ch] => ChannelHolders(ch) # {})
    /\ [][\A t \in Tasks, ch \in Channels :
            (mpc'[t] = "none" /\ mpc[t] = "idle" /\ mch'[t] = ch)
                => ChannelHolders(ch) # {}]_vars

\* the lock has been formatted while both channels were free: both writer
\* bits are set, no guard exists, the formatting task is left at depth 2,
\* and another task's try_lock has returned None
C35_Witness ==
    \E t, u \in Tasks :
        /\ mpc[t] = "idle" /\ nest[t] = 2
        /\ \A ch \in Channels : chLocked[ch] /\ ChannelHolders(ch) = {}
        /\ mpc[u] = "none"


\* C36: while a long guard of an LsLock is held, no read / write / try_read /
\* try_write / spin_read / spin_write on it completes with a guard (and no
\* other guard exists); and a task that is returned a read or write guard,
\* or None from try_read / try_write, does not own the long-phase mutex any
\* more.
C36_LongExcludesShort ==
    /\ [][\A t, u \in Tasks :
            (t # u /\ lsheld[t] = "Long") => ~(lsheld[u] = "None" /\ lsheld'[u] # "None")]_vars
    /\ [](\A t, u \in Tasks :
            (t # u /\ lsheld[t] = "Long") => lsheld[u] = "None" /\ ~lguard[u])
    /\ [][\A t \in Tasks :
            (lpc[t] \in {"ret", "none"} /\ lpc'[t] = "idle" /\ lop[t] # "disk")
                => ~lguard[t] /\ ~lguard'[t]]_vars
    /\ [](\A t \in Tasks : lsheld[t] \in {"Read", "Write"} => ~lguard[t])
    /\ [](llocked <=> \E t \in Tasks : lguard[t])

\* one task holds the long guard; a try_read of a second task has found the
\* long-phase mutex taken and returns None; a read of a third task is parked
\* in the mutex's queue
C36_Witness ==
    \E t, u, v \in Tasks :
        /\ lsheld[t] = "Long" /\ lpc[t] = "idle"
        /\ lpc[u] = "none" /\ lop[u] = "try_read" /\ ~lguard[u]
        /\ lpc[v] = "pending" /\ lop[v] = "read" /\ lwaiters = <<v>>


\* C37: TicketMutex grants the lock in ticket order. At most one guard exists
\* and its ticket is next_serving; every ticket from next_serving up to
\* next_ticket belongs to exactly one task that holds the guard or spins in
\* lock(), so no ticket is lost; a lock() caller enters only when every
\* other spinning caller has a later ticket; try_lock advances next_ticket
\* only when next_serving equals next_ticket and takes the guard in that same
\* step; every other step of a try_lock, the failing ones included, leaves
\* next_ticket and next_serving as they were.
C37_TicketOrder ==
    /\ [](\A t, u \in Tasks : (tguard[t] /\ tguard[u]) => t = u)
    /\ [](\A t \in Tasks : tguard[t] => ticket[t] = next_serving)
    /\ [](next_serving <= next_ticket)
    /\ [](\A k \in next_serving..(next_ticket - 1) :
            \E t \in Tasks :
                /\ ticket[t] = k /\ (tguard[t] \/ tpc[t] = "spin")
                /\ \A u \in Tasks :
                      (ticket[u] = k /\ (tguard[u] \/ tpc[u] = "spin")) => u = t)
    /\ [][\A t \in Tasks : (tpc[t] = "spin" /\ (~tguard[t] /\ tguard'[t])) =>
             \A u \in Tasks \ {t} : tpc[u] = "spin" => ticket[u] > ticket[t]]_vars
    /\ [][\A t \in Tasks : (tpc[t] \in {"closure", "cas", "none"} /\ tpc'[t] # tpc[t]) =>
             IF (~tguard[t] /\ tguard'[t])
             THEN /\ next_serving = next_ticket
                  /\ next_ticket' = next_ticket + 1
                  /\ next_serving' = next_serving
             ELSE /\ next_ticket' = next_ticket
                  /\ next_serving' = next_serving
                  /\ tguard' = tguard]_vars

\* one task holds the guard it got after an earlier guard was dropped, a
\* second one spins with the next ticket, and a third one's try_lock has
\* failed
C37_Witness ==
    \E t, u, v \in Tasks :
        /\ tguard[t] /\ ticket[t] >= 1
        /\ tpc[u] = "spin" /\ ticket[u] = ticket[t] + 1
        /\ tpc[v] = "none"
        /\ next_ticket = ticket[u] + 1


\* ------------------------------------------------------------ type sanity
PcValues == {"idle", "pa_lock", "pa_try", "pa_undo", "pa_err", "pa_ok", "pending",
             "spin", "try_undo", "spin_undo", "hold", "rel_lock", "rel_clear",
             "rel_wake", "rel_done", "dg_lock", "dg_wake", "up_spin", "up_err",
             "panicked", "leak_end", "leaked",
             "cs_sentinel", "cs_store", "cs_done"}

TypeOK ==
    /\ permit \in 0..(NTasks * READER + WRITER + DISK)
    /\ locked \in BOOLEAN
    /\ pc \in [Tasks -> PcValues]
    /\ held \in [Tasks -> {"None", "Read", "Write", "Disk"}]
    /\ req \in [Tasks -> {"None", "Read", "Write", "Disk"}]
    /\ Len(waiters) <= NTasks + MaxAbandoned + 1
    /\ tries \in [Tasks -> 0..MaxTries]

====
